---- MODULE Spec2Model ----
(***************************************************************************)
(* A model of the uniswap-poller decision core: tick arithmetic, the       *)
(* tick-bitmap boundary scan, the simulated position ledger kept by the    *)
(* portfolio manager (both revisions held in portfolioManager.ts and the   *)
(* inline simulator of the earlier main.ts), and the timer that drives an  *)
(* evaluation cycle.                                                       *)
(*                                                                         *)
(* Numbers.  Ticks, spacings, words and bits are JavaScript numbers that   *)
(* hold integers; they are modelled as integers with JavaScript's          *)
(* operators spelled out (Math.floor of a quotient, the sign-following     *)
(* remainder %, >> 8, & 255, << 8 |).  Dollar amounts are doubles in the   *)
(* program; they are modelled in whole cents, products with a decimal      *)
(* factor being rounded down to the cent.  1.0001^n is computed in fixed   *)
(* point with PriceScale units per 1.0.  Times are whole minutes.          *)
(***************************************************************************)
EXTENDS Integers, Sequences, FiniteSets, TLC

VARIABLES
    mIn,        \* tick-arithmetic harness: the inputs of the pure functions
    mOut,       \* tick-arithmetic harness: the last result computed
    scIn,       \* boundary-scan harness: activeTick, tickSpacing, bitmap, radius
    scOut,      \* boundary-scan harness: the {leftTick, rightTick} returned
    prog,       \* which entry point runs: "main" (main.ts) or "monitor"
    phase,      \* "boot", "firstOnce" (main awaits once()), "timer" (interval set)
    inflight,   \* the async invocations started and not yet finished
    variant,    \* which ledger code runs: "V1", "V2" or "Main"
    ledger,     \* the SimState that loadState returns and saveState stores
    clock,      \* Date.now(), in minutes
    cycles,     \* evaluation cycles completed
    poolTick,   \* slot0.tick as the last cycle read it
    records,    \* the decision records the last cycle wrote
    stateFile,  \* the content of STATE_FILE on disk
    io          \* what the reads, the evaluation and the write of the last
                \* cycle did, and whether the process is up

mathVars == <<mIn, mOut>>
scanVars == <<scIn, scOut>>
schedVars == <<prog, phase, inflight>>
ledgerVars == <<variant, ledger, clock, cycles, poolTick, records>>
durableVars == <<stateFile, io>>
vars == <<mIn, mOut, scIn, scOut, prog, phase, inflight,
          variant, ledger, clock, cycles, poolTick, records, stateFile, io>>

(***************************************************************************)
(* Bounds of the model.                                                    *)
(***************************************************************************)
MaxTick == 130          \* the harness tries every tick in -MaxTick..MaxTick
MaxRadius == 1          \* searchWordsEachSide ranges over 0..MaxRadius
MaxSetBits == 2         \* at most this many initialized ticks in a bitmap
MaxInFlight == 3        \* invocations the event loop holds suspended at once
MaxCycles == 3          \* evaluation cycles in a run of the ledger

Spacings == {1, 10, 60, 200}

(***************************************************************************)
(* JavaScript integer operators.                                           *)
(***************************************************************************)
\* The quotient truncated toward zero, as (a / b) | 0 would give it.
MathTruncDiv(a, b) == IF a >= 0 THEN a \div b ELSE -((-a) \div b)

\* Math.floor(a / b) for integers a and b > 0.
MathFloorDiv(a, b) == a \div b

\* a % b in JavaScript: the remainder takes the sign of the dividend.
JsRem(a, b) == IF a >= 0 THEN a % b ELSE -((-a) % b)

\* x >> 8 (arithmetic shift), x & 255, (w << 8) | b on 32-bit integers.
Sar8(x) == x \div 256
And255(x) == x % 256
Shl8Or(w, b) == w * 256 + b

(***************************************************************************)
(* utils.ts: roundDownToSpacing, wordOfTick, bitPosOfTick.                 *)
(***************************************************************************)
\* A rounding that returns its argument: what the range bounds would be
\* without the snap to the spacing grid.
roundDownToSpacingKeepsTick(tick, spacing) == tick + 0 * spacing

roundDownToSpacing(tick, spacing) ==
    LET t == MathFloorDiv(tick, spacing) * spacing
    IN  IF tick < 0 /\ JsRem(tick, spacing) # 0 THEN t - spacing ELSE t

compressedOfTick(tick, tickSpacing) ==
    LET compressed == MathFloorDiv(tick, tickSpacing)
    IN  IF tick < 0 /\ JsRem(tick, tickSpacing) # 0
        THEN compressed - 1 ELSE compressed

wordOfTick(tick, tickSpacing) == Sar8(compressedOfTick(tick, tickSpacing))

bitPosOfTick(tick, tickSpacing) == And255(compressedOfTick(tick, tickSpacing))

\* constants.ts has the same computation under the name tickToWord.
tickToWord(tick, tickSpacing) == Sar8(compressedOfTick(tick, tickSpacing))

(***************************************************************************)
(* The tick bitmap.  A bitmap is the set of compressed ticks whose bit is  *)
(* set: bit b of word w is set iff w*256 + b is in the set.                *)
(***************************************************************************)
tickBitmap(bm, w) == {c - w * 256 : c \in {x \in bm : x \div 256 = w}}

isZero(word) == word = {}

isBitSet(word, bit) == bit \in word

(***************************************************************************)
(* poolService.ts / main.ts: findNearestInitializedTicks.  A result is a   *)
(* sequence: <<>> for null, <<t>> for the tick t.                          *)
(***************************************************************************)
\* for (b = start; b <= 255; b++) if (isBitSet(bm, b)) { ...; break }
\* The loop stops at the first set bit it meets walking up from start, which
\* is the least set bit >= start; -1 stands for a loop that ends without one.
firstSetBitUpSkipsStart(word, start) ==
    LET hits == {b \in word : b > start /\ b <= 255}
    IN  IF hits = {} THEN -1
        ELSE CHOOSE b \in hits : \A c \in hits : b <= c

firstSetBitUp(word, start) ==
    LET hits == {b \in word : b >= start /\ b <= 255}
    IN  IF hits = {} THEN -1
        ELSE CHOOSE b \in hits : \A c \in hits : b <= c

\* for (b = start; b >= 0; b--) if (isBitSet(bm, b)) { ...; break }
\* The first set bit met walking down from start: the greatest set bit <= start.
firstSetBitDown(word, start) ==
    LET hits == {b \in word : b <= start /\ b >= 0}
    IN  IF hits = {} THEN -1
        ELSE CHOOSE b \in hits : \A c \in hits : b >= c

\* The right scan: words w..last, bits from start in the first word and from
\* 0 in the following ones; a word that is zero is skipped.
RECURSIVE scanRight(_, _, _, _, _)
scanRight(bm, w, start, last, tickSpacing) ==
    IF w > last THEN <<>>
    ELSE LET word == tickBitmap(bm, w)
             b == IF isZero(word) THEN -1 ELSE firstSetBitUp(word, start)
         IN  IF b # -1 THEN <<Shl8Or(w, b) * tickSpacing>>
             ELSE scanRight(bm, w + 1, 0, last, tickSpacing)

\* The left scan: words w down to first, bits from start down in the first
\* word and from 255 down in the following ones.
RECURSIVE scanLeft(_, _, _, _, _)
scanLeft(bm, w, start, first, tickSpacing) ==
    IF w < first THEN <<>>
    ELSE LET word == tickBitmap(bm, w)
             b == IF isZero(word) THEN -1 ELSE firstSetBitDown(word, start)
         IN  IF b # -1 THEN <<Shl8Or(w, b) * tickSpacing>>
             ELSE scanLeft(bm, w - 1, 255, first, tickSpacing)

findNearestInitializedTicks(bm, activeTick, tickSpacing, searchWordsEachSide) ==
    LET activeWord == wordOfTick(activeTick, tickSpacing)
        activeBit == bitPosOfTick(activeTick, tickSpacing)
    IN  [leftTick |-> scanLeft(bm, activeWord, activeBit - 1,
                               activeWord - searchWordsEachSide, tickSpacing),
         rightTick |-> scanRight(bm, activeWord, activeBit + 1,
                                 activeWord + searchWordsEachSide, tickSpacing)]

(***************************************************************************)
(* Harness for the tick arithmetic: every tick and spacing in the bounds   *)
(* is an input, and each action applies one of the functions to it.        *)
(***************************************************************************)
\* The parts of the state a harness does not use stay at these values.
Idle == [kind |-> "none", step |-> 0]

MathIdle == mIn = [tick |-> 0, spacing |-> 1] /\ mOut = [op |-> "none"]

ScanIdle ==
    /\ scIn = [tick |-> 0, spacing |-> 1, bitmap |-> {}, radius |-> 0]
    /\ scOut = [op |-> "none"]

SchedIdle ==
    /\ prog = "none"
    /\ phase = "boot"
    /\ inflight = [s \in 1..MaxInFlight |-> Idle]

LedgerIdle ==
    /\ variant = "none"
    /\ ledger = [positions |-> <<>>]
    /\ clock = 0
    /\ cycles = 0
    /\ poolTick = 0
    /\ records = <<>>

DurableIdle ==
    /\ stateFile = [kind |-> "absent"]
    /\ io = [status |-> "none"]

MathInit ==
    /\ mIn \in [tick : (-MaxTick)..MaxTick, spacing : Spacings]
    /\ mOut = [op |-> "none"]
    /\ ScanIdle
    /\ SchedIdle
    /\ LedgerIdle
    /\ DurableIdle

ApplyRoundDown ==
    /\ mOut' = [op |-> "roundDownToSpacing",
                result |-> roundDownToSpacing(mIn.tick, mIn.spacing)]
    /\ UNCHANGED <<mIn, scanVars, schedVars, ledgerVars, durableVars>>

ApplyWordBit ==
    /\ mOut' = [op |-> "wordBit",
                word |-> wordOfTick(mIn.tick, mIn.spacing),
                bit |-> bitPosOfTick(mIn.tick, mIn.spacing),
                tickToWord |-> tickToWord(mIn.tick, mIn.spacing)]
    /\ UNCHANGED <<mIn, scanVars, schedVars, ledgerVars, durableVars>>

MathNext == ApplyRoundDown \/ ApplyWordBit

SpecMath == MathInit /\ [][MathNext]_vars

(***************************************************************************)
(* Harness for the boundary scan.  The active tick sits next to a word     *)
(* boundary or next to zero, on and off the spacing grid; the bitmap holds *)
(* up to MaxSetBits initialized ticks among the first and last bits of the *)
(* words around it.                                                        *)
(***************************************************************************)
ScanSpacings == {1, 60}

ScanCompressed == {-257, -256, -255, -2, -1, 0, 1, 254, 255, 256}

ScanTicks(spacing) ==
    {c * spacing + o : c \in ScanCompressed, o \in {0, 1}}

BitCandidates ==
    {w * 256 + b : w \in (-3)..2, b \in {0, 255}} \cup {-258, -254, 2, 253}

Bitmaps == {bm \in SUBSET BitCandidates : Cardinality(bm) <= MaxSetBits}

ScanInit ==
    /\ \E s \in ScanSpacings, r \in 0..MaxRadius :
          \E t \in ScanTicks(s), bm \in Bitmaps :
             scIn = [tick |-> t, spacing |-> s, bitmap |-> bm, radius |-> r]
    /\ scOut = [op |-> "none"]
    /\ MathIdle
    /\ SchedIdle
    /\ LedgerIdle
    /\ DurableIdle

ApplyScan ==
    /\ scOut.op = "none"
    /\ scOut' = [op |-> "scan",
                 res |-> findNearestInitializedTicks(
                             scIn.bitmap, scIn.tick, scIn.spacing, scIn.radius)]
    /\ UNCHANGED <<scIn, mathVars, schedVars, ledgerVars, durableVars>>

ScanNext == ApplyScan

SpecScan == ScanInit /\ [][ScanNext]_vars

SetMin(S) == CHOOSE x \in S : \A y \in S : x <= y
SetMax(S) == CHOOSE x \in S : \A y \in S : x >= y

(***************************************************************************)
(* The triggers of an evaluation cycle.  main.ts awaits a first once() and *)
(* then hands once to setInterval; the event monitor registers a swap      *)
(* listener and a setInterval that each start an async handler.  An        *)
(* invocation runs synchronously to its first await, is suspended there,   *)
(* and is resumed by the event loop when the awaited fetch settles; the    *)
(* code after the last await (the evaluation and the save) runs in the     *)
(* resumption that ends the invocation.  Nothing in either entry point     *)
(* looks at the invocations already in flight before starting another.     *)
(***************************************************************************)
\* The awaits of each async function, in program order.
Awaits(kind) ==
    CASE kind = "once" ->
            <<"getBlock", "reads", "observe", "findNearestInitializedTicks">>
      [] kind = "performPeriodicAnalysis" ->
            <<"getCurrentPoolState", "getBlockNumber", "analyzeLPOpportunity">>
      [] kind = "processSwapEvent" -> <<"getBlock">>
      [] OTHER -> <<>>

FreeSlots == {s \in 1..MaxInFlight : inflight[s] = Idle}

Running == {s \in 1..MaxInFlight : inflight[s] # Idle}

\* Calling an async function: it runs up to its first await.
StartInvocation(kind) ==
    /\ FreeSlots # {}
    /\ inflight' = [inflight EXCEPT ![SetMin(FreeSlots)] =
                                        [kind |-> kind, step |-> 1]]

SchedInit ==
    /\ prog \in {"main", "monitor"}
    /\ phase = "boot"
    /\ inflight = [s \in 1..MaxInFlight |-> Idle]
    /\ MathIdle
    /\ ScanIdle
    /\ LedgerIdle
    /\ DurableIdle

\* main(): await once()
MainFirstOnce ==
    /\ prog = "main"
    /\ phase = "boot"
    /\ StartInvocation("once")
    /\ phase' = "firstOnce"
    /\ UNCHANGED <<prog, mathVars, scanVars, ledgerVars, durableVars>>

\* startMonitoring(): startSwapEventListener(); startPeriodicAnalysis()
startMonitoring ==
    /\ prog = "monitor"
    /\ phase = "boot"
    /\ phase' = "timer"
    /\ UNCHANGED <<prog, inflight, mathVars, scanVars, ledgerVars, durableVars>>

\* The interval elapses: setInterval calls its callback.
TimerTick ==
    /\ phase = "timer"
    /\ StartInvocation(IF prog = "main" THEN "once"
                       ELSE "performPeriodicAnalysis")
    /\ UNCHANGED <<prog, phase, mathVars, scanVars, ledgerVars, durableVars>>

\* watchEvent delivers a Swap log: onLogs awaits processSwapEvent(log).
SwapLogs ==
    /\ prog = "monitor"
    /\ phase = "timer"
    /\ StartInvocation("processSwapEvent")
    /\ UNCHANGED <<prog, phase, mathVars, scanVars, ledgerVars, durableVars>>

\* An awaited fetch settles: the invocation runs to its next await, or, after
\* its last await, evaluates, saves and returns.
Resume(s) ==
    /\ phase # "exited"
    /\ inflight[s] # Idle
    /\ IF inflight[s].step < Len(Awaits(inflight[s].kind))
       THEN /\ inflight' = [inflight EXCEPT ![s].step = @ + 1]
            /\ UNCHANGED phase
       ELSE /\ inflight' = [inflight EXCEPT ![s] = Idle]
            /\ phase' = IF phase = "firstOnce" THEN "timer" ELSE phase
    /\ UNCHANGED <<prog, mathVars, scanVars, ledgerVars, durableVars>>

\* SIGINT, SIGTERM or SIGHUP is delivered between two callbacks.  The event
\* monitor's handler calls cleanup(), which clears the intervals, and then
\* process.exit(0); main.ts registers no handler and the signal ends the
\* process.  Either way the invocations suspended at an await are never
\* resumed, and nothing is written on the way out.
gracefulShutdown ==
    /\ \/ prog = "monitor" /\ phase = "timer"
       \/ prog = "main" /\ phase \in {"firstOnce", "timer"}
    /\ phase' = "exited"
    /\ UNCHANGED <<prog, inflight, mathVars, scanVars, ledgerVars, durableVars>>

SchedNext ==
    \/ MainFirstOnce
    \/ startMonitoring
    \/ TimerTick
    \/ SwapLogs
    \/ \E s \in 1..MaxInFlight : Resume(s)
    \/ gracefulShutdown

SpecSched == SchedInit /\ [][SchedNext]_vars

(***************************************************************************)
(* eventMonitor.ts: the tick the monitor tracks.  The pool changes its     *)
(* tick with every swap; a swap is numbered by cycles, and poolTick is the *)
(* tick after the latest one.  ledger is the monitor object cut down to    *)
(* currentTick, together with the number of the swap whose tick it holds   *)
(* (seq, kept for the properties; the program has no such field).  records *)
(* is what logTickChange was given.  An invocation in flight carries the   *)
(* tick it holds in a local variable and the number of the swap that tick  *)
(* came from.  clock counts the polls started.                             *)
(***************************************************************************)
MaxSwaps == 2

MaxPolls == 2

MonitorTicks == {0, 60, 120}

MonitorInit ==
    /\ prog = "monitor"
    /\ phase = "timer"
    /\ inflight = [s \in 1..MaxInFlight |-> Idle]
    /\ variant = "none"
    /\ ledger = [currentTick |-> 0, seq |-> 0]
    /\ poolTick = 0
    /\ cycles = 0
    /\ clock = 0
    /\ records = <<>>
    /\ MathIdle
    /\ ScanIdle
    /\ DurableIdle

\* A swap moves the pool's tick and watchEvent hands its log to onLogs:
\* processSwapEvent parses the tick out of the log and awaits getBlock.
OnSwap ==
    /\ cycles < MaxSwaps
    /\ FreeSlots # {}
    /\ \E t \in MonitorTicks \ {poolTick} :
          /\ poolTick' = t
          /\ inflight' = [inflight EXCEPT ![SetMin(FreeSlots)] =
                             [kind |-> "processSwapEvent", step |-> 1,
                              tick |-> t, seq |-> cycles + 1]]
    /\ cycles' = cycles + 1
    /\ UNCHANGED <<prog, phase, variant, ledger, clock, records,
                   mathVars, scanVars, durableVars>>

\* The interval elapses: performPeriodicAnalysis awaits getCurrentPoolState.
OnInterval ==
    /\ clock < MaxPolls
    /\ FreeSlots # {}
    /\ inflight' = [inflight EXCEPT ![SetMin(FreeSlots)] =
                       [kind |-> "performPeriodicAnalysis", step |-> 1,
                        tick |-> 0, seq |-> 0]]
    /\ clock' = clock + 1
    /\ UNCHANGED <<prog, phase, variant, ledger, cycles, poolTick, records,
                   mathVars, scanVars, durableVars>>

\* handleTickChange up to its await: the change is handed to logTickChange.
handleTickChange(inv) ==
    Append(records, [fromTick |-> ledger.currentTick, toTick |-> inv.tick,
                     seq |-> inv.seq])

\* this.currentTick = tick
setCurrentTick(inv) == [currentTick |-> inv.tick, seq |-> inv.seq]

\* processSwapEvent after getBlock has settled (step 1) and after
\* handleTickChange has returned (step 2).
processSwapEvent(s) ==
    LET inv == inflight[s]
    IN  /\ inv.kind = "processSwapEvent"
        /\ IF inv.step = 1 /\ inv.tick # ledger.currentTick
           THEN /\ records' = handleTickChange(inv)
                /\ inflight' = [inflight EXCEPT ![s].step = 2]
                /\ UNCHANGED ledger
           ELSE /\ ledger' = setCurrentTick(inv)
                /\ inflight' = [inflight EXCEPT ![s] = Idle]
                /\ UNCHANGED records
        /\ UNCHANGED <<prog, phase, variant, clock, cycles, poolTick,
                       mathVars, scanVars, durableVars>>

\* performPeriodicAnalysis after getCurrentPoolState has settled (step 1),
\* after getBlockNumber (step 2), after handleTickChange (step 3) and after
\* analyzeLPOpportunity (step 4).
performPeriodicAnalysis(s) ==
    LET inv == inflight[s]
    IN  /\ inv.kind = "performPeriodicAnalysis"
        /\ CASE inv.step = 1 ->
                  /\ inflight' = [inflight EXCEPT ![s] =
                                     [inv EXCEPT !.step = 2, !.tick = poolTick,
                                                 !.seq = cycles]]
                  /\ UNCHANGED <<ledger, records>>
             [] inv.step = 2 /\ inv.tick # ledger.currentTick ->
                  /\ records' = handleTickChange(inv)
                  /\ inflight' = [inflight EXCEPT ![s].step = 3]
                  /\ UNCHANGED ledger
             [] inv.step = 4 ->
                  /\ inflight' = [inflight EXCEPT ![s] = Idle]
                  /\ UNCHANGED <<ledger, records>>
             [] OTHER ->
                  /\ ledger' = setCurrentTick(inv)
                  /\ inflight' = [inflight EXCEPT ![s].step = 4]
                  /\ UNCHANGED records
        /\ UNCHANGED <<prog, phase, variant, clock, cycles, poolTick,
                       mathVars, scanVars, durableVars>>

MonitorNext ==
    \/ OnSwap
    \/ OnInterval
    \/ \E s \in 1..MaxInFlight : processSwapEvent(s)
    \/ \E s \in 1..MaxInFlight : performPeriodicAnalysis(s)

SpecMonitor == MonitorInit /\ [][MonitorNext]_vars

(***************************************************************************)
(* Fixed-point arithmetic of the position ledger.  A price or a ratio x is *)
(* the integer round(x * PriceScale); an amount of dollars is held in      *)
(* cents; a percentage is held in hundredths of a percent; a time is held  *)
(* in minutes.                                                             *)
(***************************************************************************)
PriceScale == 10000

Min2(a, b) == IF a <= b THEN a ELSE b
\* A maximum that forgets its second argument: a floor that is not applied.
Max2KeepsFirst(a, b) == IF a >= b THEN a ELSE a
Max2(a, b) == IF a >= b THEN a ELSE b
Abs(a) == IF a >= 0 THEN a ELSE -a

\* Math.ceil(a / b) for b > 0.
MathCeilDiv(a, b) == -((-a) \div b)

\* floor(a * b / c) for a, b >= 0 and c > 0, without forming a * b.
MulDiv(a, b, c) == (a \div c) * b + ((a % c) * b) \div c

\* The same for a of either sign, rounding towards zero.
SMulDiv(a, b, c) == IF a >= 0 THEN MulDiv(a, b, c) ELSE -MulDiv(-a, b, c)

\* Math.sqrt on fixed-point numbers: the integer square root of n*PriceScale
\* by Newton's iteration.
RECURSIVE NewtonSqrt(_, _)
NewtonSqrt(n, x) ==
    LET y == (x + n \div x) \div 2
    IN  IF y >= x THEN x ELSE NewtonSqrt(n, y)

MathSqrt(x) == IF x <= 0 THEN 0 ELSE NewtonSqrt(x * PriceScale, x * PriceScale)

\* 1.0001^(2^k) for k = 0..12, in fixed point.
BinaryPowers ==
    <<10001, 10002, 10004, 10008, 10016, 10032, 10064, 10129, 10259, 10525,
      11078, 12273, 15062>>

\* Math.pow(1.0001, n) for n >= 0: the product of the binary powers of n.
RECURSIVE PowBits(_, _)
PowBits(n, k) ==
    IF n = 0 THEN PriceScale
    ELSE LET rest == PowBits(n \div 2, k + 1)
         IN  IF n % 2 = 1
             THEN (rest * BinaryPowers[k] + PriceScale \div 2) \div PriceScale
             ELSE rest

\* utils.ts tickToPrice with dec0 = dec1.
tickToPrice(tick) ==
    IF tick >= 0 THEN PowBits(tick, 1)
    ELSE (PriceScale * PriceScale) \div PowBits(-tick, 1)

\* The representation of h hours, of d dollars and of p percent.
Hours(h) == h * 60
Dollars(d) == d * 100
Percent(p) == p * 100

(***************************************************************************)
(* calculations.ts.  A position is a record with the fields of types.ts    *)
(* that the decisions read or write; lastRebalanceAt is -1 while it is     *)
(* undefined.  calculateLiquidity derives a liquidity figure and corrects  *)
(* the two token amounts by it; the model keeps the equal-value split it   *)
(* starts from (half the amount in token0, half converted at the price)    *)
(* and no liquidity figure: the pool's share of the fees is an input.      *)
(***************************************************************************)
calculateTimeHeld(since, now) == now - since

calculateLiquidity(amountUsd, currentPrice) ==
    LET halfAmount == amountUsd \div 2
    IN  [token0Amount |-> halfAmount,
         token1Amount |-> MulDiv(halfAmount, PriceScale, currentPrice)]

calculateImpermanentLoss(entryPrice, currentPrice) ==
    IF entryPrice = 0 \/ currentPrice = 0 THEN 0
    ELSE LET priceRatio == MulDiv(currentPrice, PriceScale, entryPrice)
             sqrtRatio == MathSqrt(priceRatio)
             il == MulDiv(2 * sqrtRatio, PriceScale, PriceScale + priceRatio)
                       - PriceScale
         IN  (Abs(il) * Percent(100)) \div PriceScale

calculateCurrentPositionValue(position, currentPrice, currentTick) ==
    IF currentTick < position.lower
    THEN MulDiv(position.token1Amount, currentPrice, PriceScale)
    ELSE IF currentTick > position.upper
    THEN position.token0Amount
    ELSE LET priceRatio == MulDiv(currentPrice, PriceScale, position.entryPrice)
             lpValue == MulDiv(position.amountUsd, MathSqrt(priceRatio),
                               PriceScale)
         IN  Max2(lpValue, position.amountUsd \div 10)

\* liquidityFactor is Math.min(liquidityRatio * 50, 1) and randomFactor is
\* 0.7 + Math.random() * 0.6, both in percent; feeRate is pool.fee().
calculateFeesEarned(position, currentTick, currentPrice, liquidityFactor, randomFactor, feeRate, now) ==
    LET timeHeld == calculateTimeHeld(position.enteredAt, now)
        inRange == currentTick >= position.lower /\ currentTick <= position.upper
        priceChange == MulDiv(Abs(currentPrice - position.entryPrice),
                              PriceScale, position.entryPrice)
        baseVolume == (position.amountUsd * 3) \div 100
        volatilityFactor == PriceScale + priceChange * 2
        timeFactor == Min2(timeHeld, Hours(24))
        dailyVolume == MulDiv(MulDiv(baseVolume, volatilityFactor, PriceScale),
                              timeFactor, Hours(24))
        newFees == MulDiv(dailyVolume * feeRate, liquidityFactor, 100)
    IN  IF timeHeld <= 0 \/ position.entryPrice = 0 THEN position.feesEarned
        ELSE IF ~inRange THEN position.feesEarned
        ELSE position.feesEarned
                 + Max2(0, MulDiv(newFees, randomFactor, 100) \div 1000000)

\* A distance that tests the lower bound only.
calculatePositionDistanceLowerOnly(tick, position) ==
    IF tick < position.lower THEN -1
    ELSE Min2(tick - position.lower, position.upper - tick)

calculatePositionDistance(tick, position) ==
    IF tick < position.lower \/ tick > position.upper THEN -1
    ELSE Min2(tick - position.lower, position.upper - tick)

shouldClosePosition(tick, position, D, now) ==
    LET distance == calculatePositionDistance(tick, position)
        timeHeld == calculateTimeHeld(position.enteredAt, now)
    IN  \/ distance = -1
        \/ distance < D /\ timeHeld > Hours(12)
        \/ position.totalReturn < -Percent(25)
        \/ position.totalReturn > Percent(40) /\ distance < D
              /\ timeHeld > Hours(24)
        \/ timeHeld > Hours(120) /\ position.totalReturn < Percent(5)
        \/ position.impermanentLoss > Percent(15)

shouldHoldPosition(tick, position, B) == TRUE

\* shouldRebalancePosition without its test of the time since the last
\* rebalance.
shouldRebalancePositionAnyTime(position, currentTick, currentPrice, W, B, now) ==
    LET distance == calculatePositionDistance(currentTick, position)
        timeHeld == calculateTimeHeld(position.enteredAt, now)
    IN  IF position.totalReturn < -Percent(15) THEN FALSE
        ELSE \/ distance * 3 < B /\ position.totalReturn > Percent(3)
             \/ position.totalReturn > Percent(15) /\ distance * 2 < B
             \/ position.totalReturn > Percent(20) /\ distance * 2 < B
                   /\ timeHeld > Hours(48)
             \/ position.feesEarned * 20 > position.amountUsd
                   /\ distance * 2 < B

shouldRebalancePosition(position, currentTick, currentPrice, W, B, now) ==
    LET distance == calculatePositionDistance(currentTick, position)
        timeHeld == calculateTimeHeld(position.enteredAt, now)
    IN  IF position.lastRebalanceAt # -1
           /\ calculateTimeHeld(position.lastRebalanceAt, now) < Hours(24)
        THEN FALSE
        ELSE IF position.totalReturn < -Percent(15) THEN FALSE
        ELSE \/ distance * 3 < B /\ position.totalReturn > Percent(3)
             \/ position.totalReturn > Percent(15) /\ distance * 2 < B
             \/ position.totalReturn > Percent(20) /\ distance * 2 < B
                   /\ timeHeld > Hours(48)
             \/ position.feesEarned * 20 > position.amountUsd
                   /\ distance * 2 < B

\* sigma is held as a whole number of LOG_1P0001 units: once() computes it as
\* dtick * LOG_1P0001 and widthFromSigma divides it by LOG_1P0001 again.
\* sigma > t/1000, with LOG_1P0001 = 0.000099995.
SigmaAbove(sigma, t) == sigma * 99995 > t * 1000000

\* A twap argument is <<>> when undefined and <<x>> otherwise.
analyzeMarketTrend(currentPrice, twap1h, twap5m, sigma) ==
    LET both == /\ twap1h # <<>> /\ twap1h[1] # 0
                /\ twap5m # <<>> /\ twap5m[1] # 0
        priceVsTwap1h == SMulDiv(currentPrice - twap1h[1], PriceScale, twap1h[1])
        twap5mVsTwap1h == SMulDiv(twap5m[1] - twap1h[1], PriceScale, twap1h[1])
        bullish == both /\ priceVsTwap1h * 1000 > 15 * PriceScale
                        /\ twap5mVsTwap1h * 1000 > 5 * PriceScale
        bearish == both /\ ~bullish
                        /\ priceVsTwap1h * 1000 < -15 * PriceScale
                        /\ twap5mVsTwap1h * 1000 < -5 * PriceScale
        trend == IF bullish THEN "bullish"
                 ELSE IF bearish THEN "bearish" ELSE "neutral"
        strength == IF bullish \/ bearish
                    THEN Min2(Abs(priceVsTwap1h) * 100, 100 * PriceScale)
                    ELSE 0
        volatility == IF SigmaAbove(sigma, 30) THEN "high"
                      ELSE IF SigmaAbove(sigma, 15) THEN "medium" ELSE "low"
        recommendation ==
            IF volatility = "high" /\ SigmaAbove(sigma, 50) THEN "avoid"
            ELSE IF trend # "neutral" /\ strength > 20 * PriceScale
                    /\ volatility # "high" THEN "add"
            ELSE IF trend = "neutral" /\ volatility = "low" THEN "add"
            ELSE "hold"
    IN  [trend |-> trend, strength |-> strength, volatility |-> volatility,
         recommendation |-> recommendation]

calculateOptimalPositionSize(sigma, totalUsdLimit, maxUsdPerPosition, activePositionsCount, maxPositions) ==
    LET baseSize0 == IF maxPositions = 0 THEN maxUsdPerPosition
                     ELSE Min2(maxUsdPerPosition, totalUsdLimit \div maxPositions)
        baseSize1 == IF SigmaAbove(sigma, 30) THEN (baseSize0 * 5) \div 10
                     ELSE IF SigmaAbove(sigma, 15) THEN (baseSize0 * 7) \div 10
                     ELSE (baseSize0 * 9) \div 10
        remainingSlots == maxPositions - activePositionsCount
        baseSize == IF remainingSlots <= 1 THEN (baseSize1 * 6) \div 10
                    ELSE IF remainingSlots <= 2 THEN (baseSize1 * 8) \div 10
                    ELSE baseSize1
        minSize == Min2(Dollars(300), (totalUsdLimit * 3) \div 100)
    IN  Max2(minSize, baseSize)

\* activePositions is the sequence of the active position records;
\* recommendedSize is 0 where the program leaves it undefined.
shouldAddNewPosition(currentTick, currentPrice, twap1h, sigma, activePositions, maxPositions, totalUsdLimit, maxUsdPerPosition) ==
    LET market == analyzeMarketTrend(currentPrice, twap1h, <<>>, sigma)
        hasOverlap == \E i \in 1..Len(activePositions) :
                          /\ currentTick >= activePositions[i].lower
                          /\ currentTick <= activePositions[i].upper
        size == calculateOptimalPositionSize(sigma, totalUsdLimit,
                    maxUsdPerPosition, Len(activePositions), maxPositions)
        invested == LET RECURSIVE Sum(_)
                        Sum(i) == IF i = 0 THEN 0
                                  ELSE Sum(i - 1) + activePositions[i].amountUsd
                    IN  Sum(Len(activePositions))
        availableAmount == totalUsdLimit - invested
        reject(why) == [shouldAdd |-> FALSE, reason |-> why,
                        recommendedSize |-> 0]
    IN  IF Len(activePositions) >= maxPositions
        THEN reject("Max positions reached")
        ELSE IF market.recommendation = "avoid"
        THEN reject("Market conditions unfavorable")
        ELSE IF market.volatility = "high" /\ SigmaAbove(sigma, 50)
        THEN reject("Extremely high volatility")
        ELSE IF hasOverlap THEN reject("Overlapping position exists")
        ELSE IF availableAmount * 2 < size THEN reject("Insufficient capital")
        ELSE [shouldAdd |-> TRUE, reason |-> "Market trend",
              recommendedSize |-> size]

(***************************************************************************)
(* stateManager.ts.  The ledger is the record SimState of types.ts, cut    *)
(* down to the position list, the invested counter, the gas counter and    *)
(* the capital policy.                                                     *)
(***************************************************************************)
\* The active positions, as their indices in state.positions: the program's
\* array holds references to the same objects.
\* A filter that lets every position through, closed ones included.
getActivePositionsKeepsClosed(state) == DOMAIN state.positions

getActivePositions(state) ==
    {i \in 1..Len(state.positions) : state.positions[i].status = "active"}

canAddPositionIgnoresCount(state, amountUsd) ==
    /\ state.totalUsdInvested + amountUsd <= state.totalUsdLimit
    /\ amountUsd <= state.maxUsdPerPosition

canAddPositionIgnoresState(state, amountUsd) ==
    amountUsd <= state.maxUsdPerPosition

canAddPosition(state, amountUsd) ==
    /\ Cardinality(getActivePositions(state)) < state.maxPositions
    /\ state.totalUsdInvested + amountUsd <= state.totalUsdLimit
    /\ amountUsd <= state.maxUsdPerPosition

createNewPosition(lower, upper, tick, price, amountUsd, tokens, timestamp) ==
    [lower |-> lower, upper |-> upper, enteredAt |-> timestamp,
     entryTick |-> tick, entryPrice |-> price, amountUsd |-> amountUsd,
     status |-> "active", feesEarned |-> 0, rebalanceCount |-> 0,
     lastRebalanceAt |-> -1,
     token0Amount |-> tokens.token0Amount, token1Amount |-> tokens.token1Amount,
     currentValue |-> amountUsd, impermanentLoss |-> 0, totalReturn |-> 0,
     lastUpdateAt |-> timestamp]

logPositionDecision(position, positionId, action, reason, tick, distance, feesEarned, currentValue, totalReturn) ==
    [positionId |-> positionId, action |-> action, reason |-> reason,
     tick |-> tick, positionRange |-> <<position.lower, position.upper>>,
     distance |-> distance, amountUsd |-> position.amountUsd,
     currentValue |-> currentValue, feesEarned |-> feesEarned,
     totalReturn |-> totalReturn, rebalanceCount |-> position.rebalanceCount]

(***************************************************************************)
(* utils.ts and main.ts: the recommended width and the two thresholds.     *)
(* z is in hundredths.                                                     *)
(***************************************************************************)
T_HOURS == 24
Z_CONF == 128

\* Math.ceil(2 * halfWidth), then rounded up to the spacing grid.
\* T_days = Math.max(1e-9, T_hours / 24): the floor 1e-9 is below the
\* fixed-point resolution and reads as 0 here.
rawWidth(sigma, T_hours, z, tickSpacing) ==
    LET sqrtT_days == MathSqrt(Max2(0, (T_hours * PriceScale) \div 24))
        W == MathCeilDiv(MulDiv(2 * z * sigma, sqrtT_days, PriceScale), 100)
    IN  MathCeilDiv(W, tickSpacing) * tickSpacing

\* utils.ts
widthFromSigma(sigma, T_hours, z, tickSpacing) ==
    Max2(rawWidth(sigma, T_hours, z, tickSpacing), 6 * tickSpacing)

bufferB(W, tickSpacing) == Max2(2 * tickSpacing, MathFloorDiv(W, 10))

dangerD(W, tickSpacing) == Max2(3 * tickSpacing, MathFloorDiv(W * 15, 100))

\* main.ts
widthFromSigmaMain(sigma, T_hours, z, tickSpacing) ==
    Max2(rawWidth(sigma, T_hours, z, tickSpacing), 2 * tickSpacing)

dangerDMain(W, tickSpacing) == Max2(tickSpacing, MathFloorDiv(W * 5, 100))

\* The earlier utils.ts: the width is clamped to [4, 20] spacing units.
widthFromSigmaClamped(sigma, T_hours, z, tickSpacing) ==
    LET W == rawWidth(sigma, T_hours, z, tickSpacing)
        minWidth == 4 * tickSpacing
        maxWidth == 20 * tickSpacing
    IN  Max2(minWidth, Min2(W, maxWidth))

(***************************************************************************)
(* Harness for the range sizer: sigma (in units of log(1.0001)), the       *)
(* horizon in hours, z in hundredths and the spacing are inputs; an action *)
(* computes the width with one of the three widthFromSigma, and a second   *)
(* action derives the thresholds from that width as once() does.           *)
(***************************************************************************)
Sigmas == {0, 1, 7, 50, 400, 1000}

Horizons == {0, 1, 24, 48}

Confidences == {0, 128, 196}

WidthInit ==
    /\ mIn \in [sigma : Sigmas, T_hours : Horizons, z : Confidences,
                 spacing : Spacings]
    /\ mOut = [op |-> "none"]
    /\ ScanIdle
    /\ SchedIdle
    /\ LedgerIdle
    /\ DurableIdle

ApplyWidthMain ==
    /\ mOut.op = "none"
    /\ mOut' = [op |-> "widthFromSigma", of |-> "main", minimum |-> 2,
                W |-> widthFromSigmaMain(mIn.sigma, mIn.T_hours, mIn.z,
                                         mIn.spacing)]
    /\ UNCHANGED <<mIn, scanVars, schedVars, ledgerVars, durableVars>>

ApplyWidthUtils ==
    /\ mOut.op = "none"
    /\ mOut' = [op |-> "widthFromSigma", of |-> "utils", minimum |-> 6,
                W |-> widthFromSigma(mIn.sigma, mIn.T_hours, mIn.z,
                                     mIn.spacing)]
    /\ UNCHANGED <<mIn, scanVars, schedVars, ledgerVars, durableVars>>

ApplyWidthClamped ==
    /\ mOut.op = "none"
    /\ mOut' = [op |-> "widthFromSigma", of |-> "clamped", minimum |-> 4,
                W |-> widthFromSigmaClamped(mIn.sigma, mIn.T_hours, mIn.z,
                                            mIn.spacing)]
    /\ UNCHANGED <<mIn, scanVars, schedVars, ledgerVars, durableVars>>

\* const B = bufferB(W, spacing); const D = dangerD(W, spacing);
ApplyThresholds ==
    /\ mOut.op = "widthFromSigma"
    /\ mOut' = [op |-> "thresholds", of |-> mOut.of, W |-> mOut.W,
                B |-> bufferB(mOut.W, mIn.spacing),
                D |-> IF mOut.of = "main"
                      THEN dangerDMain(mOut.W, mIn.spacing)
                      ELSE dangerD(mOut.W, mIn.spacing),
                minimumD |-> IF mOut.of = "main" THEN 1 ELSE 3]
    /\ UNCHANGED <<mIn, scanVars, schedVars, ledgerVars, durableVars>>

WidthNext ==
    ApplyWidthMain \/ ApplyWidthUtils \/ ApplyWidthClamped \/ ApplyThresholds

SpecWidth == WidthInit /\ [][WidthNext]_vars

(***************************************************************************)
(* utils.ts analyzeTickRange and mathUtils.ts analyzeBinEdges: the bucket  *)
(* of the spacing grid that holds the current tick, and the risk zone of   *)
(* the tick inside it.  A proportion is the pair of its numerator and its  *)
(* denominator; the denominators are positive.  For the spacings of the    *)
(* protocol the quotients the program computes in double precision compare *)
(* and add up as these pairs do.  riskDescription and currentPriceInRange  *)
(* are left out: nothing reads them but the display.                       *)
(***************************************************************************)
Ratio(n, d) == [num |-> n, den |-> d]

RatioLess(a, b) == a.num * b.den < b.num * a.den

RatioLeq(a, b) == a.num * b.den <= b.num * a.den

RatioMin(a, b) == IF RatioLess(b, a) THEN b ELSE a

RatioSum(a, b) == Ratio(a.num * b.den + b.num * a.den, a.den * b.den)

\* The thresholds of the risk zones in config.ts.
DANGER_ZONE_THRESHOLD == Ratio(1, 10)
WARNING_ZONE_THRESHOLD == Ratio(2, 10)
SAFE_ZONE_THRESHOLD == Ratio(3, 10)
OPTIMAL_ZONE_THRESHOLD == Ratio(35, 100)

\* The if/else chain of both analyses, with its literal cut-offs.
riskZone(nearestPct, danger, warning, safe) ==
    IF RatioLeq(nearestPct, danger)
    THEN [riskLevel |-> "danger", lpRecommendation |-> "avoid"]
    ELSE IF RatioLeq(nearestPct, warning)
    THEN [riskLevel |-> "warning", lpRecommendation |-> "caution"]
    ELSE IF RatioLeq(nearestPct, safe)
    THEN [riskLevel |-> "safe", lpRecommendation |-> "add"]
    ELSE [riskLevel |-> "optimal", lpRecommendation |-> "excellent"]

analyzeTickRange(currentTick, tickSpacing) ==
    LET activeTickLower == MathFloorDiv(currentTick, tickSpacing) * tickSpacing
        activeTickUpper == activeTickLower + tickSpacing
        priceAtTickLower == tickToPrice(activeTickLower)
        priceAtTickUpper == tickToPrice(activeTickUpper)
        tickRangeInTicks == activeTickUpper - activeTickLower
        ticksFromLower == currentTick - activeTickLower
        ticksFromUpper == activeTickUpper - currentTick
        distanceToLowerTickPct == Ratio(ticksFromLower, tickRangeInTicks)
        distanceToUpperTickPct == Ratio(ticksFromUpper, tickRangeInTicks)
        nearestTickDistancePct ==
            RatioMin(distanceToLowerTickPct, distanceToUpperTickPct)
        zone == riskZone(nearestTickDistancePct, Ratio(1, 10), Ratio(2, 10),
                         Ratio(3, 10))
    IN  [currentTick |-> currentTick, tickSpacing |-> tickSpacing,
         lowerTick |-> activeTickLower, upperTick |-> activeTickUpper,
         priceAtLower |-> priceAtTickLower, priceAtUpper |-> priceAtTickUpper,
         distanceToLowerPct |-> distanceToLowerTickPct,
         distanceToUpperPct |-> distanceToUpperTickPct,
         nearestSide |->
            IF RatioLess(distanceToLowerTickPct, distanceToUpperTickPct)
            THEN "lower" ELSE "upper",
         nearestDistancePct |-> nearestTickDistancePct,
         riskLevel |-> zone.riskLevel,
         lpRecommendation |-> zone.lpRecommendation]

analyzeBinEdges(currentTick, tickSpacing) ==
    LET currentBin == MathFloorDiv(currentTick, tickSpacing)
        binLowerTick == currentBin * tickSpacing
        binUpperTick == (currentBin + 1) * tickSpacing
        priceAtBinLower == tickToPrice(binLowerTick)
        priceAtBinUpper == tickToPrice(binUpperTick)
        tickRangeInBin == binUpperTick - binLowerTick
        ticksFromLower == currentTick - binLowerTick
        ticksFromUpper == binUpperTick - currentTick
        distanceToLowerEdgePct == Ratio(ticksFromLower, tickRangeInBin)
        distanceToUpperEdgePct == Ratio(ticksFromUpper, tickRangeInBin)
        nearestEdgeDistancePct ==
            RatioMin(distanceToLowerEdgePct, distanceToUpperEdgePct)
        zone == riskZone(nearestEdgeDistancePct, Ratio(1, 10), Ratio(2, 10),
                         Ratio(35, 100))
    IN  [currentTick |-> currentTick, tickSpacing |-> tickSpacing,
         lowerTick |-> binLowerTick, upperTick |-> binUpperTick,
         priceAtLower |-> priceAtBinLower, priceAtUpper |-> priceAtBinUpper,
         distanceToLowerPct |-> distanceToLowerEdgePct,
         distanceToUpperPct |-> distanceToUpperEdgePct,
         nearestSide |->
            IF RatioLess(distanceToLowerEdgePct, distanceToUpperEdgePct)
            THEN "lower" ELSE "upper",
         nearestDistancePct |-> nearestEdgeDistancePct,
         riskLevel |-> zone.riskLevel,
         lpRecommendation |-> zone.lpRecommendation]

\* The harness of the bucket analysis: mIn is [tick, spacing], mOut is
\* [op |-> "none"] or the analysis under the name of its function.
BucketInit ==
    /\ mIn \in [tick : (-MaxTick)..MaxTick, spacing : Spacings]
    /\ mOut = [op |-> "none"]
    /\ ScanIdle
    /\ SchedIdle
    /\ LedgerIdle
    /\ DurableIdle

ApplyAnalyzeTickRange ==
    /\ mOut.op = "none"
    /\ mOut' = [op |-> "analyzeTickRange",
                analysis |-> analyzeTickRange(mIn.tick, mIn.spacing)]
    /\ UNCHANGED <<mIn, scanVars, schedVars, ledgerVars, durableVars>>

ApplyAnalyzeBinEdges ==
    /\ mOut.op = "none"
    /\ mOut' = [op |-> "analyzeBinEdges",
                analysis |-> analyzeBinEdges(mIn.tick, mIn.spacing)]
    /\ UNCHANGED <<mIn, scanVars, schedVars, ledgerVars, durableVars>>

BucketNext == ApplyAnalyzeTickRange \/ ApplyAnalyzeBinEdges

SpecBucket == BucketInit /\ [][BucketNext]_vars

(***************************************************************************)
(* once() up to the simulator: what one cycle reads from the chain and the *)
(* band it derives.  An input in is [tick, obs, dt, liquidityFactor,       *)
(* randomFactor]: obs is <<>> when pool.observe throws and <<[tick5m,      *)
(* tick1h]>> otherwise.  The caller of PortfolioManager.processPositions   *)
(* is taken to derive its arguments the same way, with utils.ts.           *)
(***************************************************************************)
Pool == [fee |-> 3000, tickSpacing |-> 60]

\* The price is taken at the tick read from slot0 (the code derives it from
\* sqrtPriceX96, which lies within that tick); sigma is the TWAP drift in
\* units of log(1.0001).
Reading(usesUtils, in) ==
    LET spacing == Pool.tickSpacing
        twapDrift == IF in.obs = <<>> THEN -1
                     ELSE Abs(in.obs[1].tick5m - in.obs[1].tick1h)
        sigma == IF in.obs = <<>> THEN 0 ELSE twapDrift
        center == IF in.obs = <<>> THEN in.tick ELSE in.obs[1].tick1h
        W == IF usesUtils THEN widthFromSigma(sigma, T_HOURS, Z_CONF, spacing)
             ELSE widthFromSigmaMain(sigma, T_HOURS, Z_CONF, spacing)
        lowerReco == roundDownToSpacing(center - MathFloorDiv(W, 2), spacing)
        TREND_THRESH == Max2(spacing, MathFloorDiv(W * 2, 10))
    IN  [tick |-> in.tick, price |-> tickToPrice(in.tick), fee |-> Pool.fee,
         spacing |-> spacing, sigma |-> sigma,
         twap1h |-> IF in.obs = <<>> THEN <<>> ELSE <<in.obs[1].tick1h>>,
         W |-> W, B |-> bufferB(W, spacing),
         D |-> IF usesUtils THEN dangerD(W, spacing)
               ELSE dangerDMain(W, spacing),
         lowerReco |-> lowerReco, upperReco |-> lowerReco + W,
         trendLabel |-> IF twapDrift = -1 THEN "unknown"
                        ELSE IF twapDrift < TREND_THRESH THEN "sideways"
                        ELSE "trending",
         liquidityFactor |-> in.liquidityFactor,
         randomFactor |-> in.randomFactor]

(***************************************************************************)
(* portfolioManager.ts, first revision (suffix V1).  A context c is the    *)
(* ledger being mutated together with the decision records written so far  *)
(* in the cycle: [state, log].  m is the cycle's Reading.                  *)
(***************************************************************************)
\* ((currentValue + feesEarned - amountUsd) / amountUsd) * 100
totalReturnOf(currentValue, feesEarned, amountUsd) ==
    IF amountUsd = 0 THEN 0
    ELSE SMulDiv(currentValue + feesEarned - amountUsd, Percent(100), amountUsd)

\* The metrics processExistingPosition computes and stores in the position.
updateMetrics(position, m, now) ==
    LET feesEarned == calculateFeesEarned(position, m.tick, m.price,
                          m.liquidityFactor, m.randomFactor, m.fee, now)
        currentValue == calculateCurrentPositionValue(position, m.price, m.tick)
    IN  [position EXCEPT
            !.feesEarned = feesEarned,
            !.currentValue = currentValue,
            !.impermanentLoss =
                calculateImpermanentLoss(position.entryPrice, m.price),
            !.totalReturn =
                totalReturnOf(currentValue, feesEarned, position.amountUsd),
            !.lastUpdateAt = now]

closePositionV1(c, i, position, distance, m, now) ==
    LET closed == [position EXCEPT !.status = "closed", !.lastUpdateAt = now]
        reason == IF distance = -1 THEN "Gia ra khoi dai - dong vi the"
                  ELSE "Gia sat bien - dong de tranh IL"
    IN  [state |-> [c.state EXCEPT
                       !.positions[i] = closed,
                       !.totalUsdInvested = @ - position.amountUsd,
                       !.totalGasSpent = @ + c.state.gasCostPerTransaction],
         log |-> Append(c.log,
                    logPositionDecision(closed, i, "CLOSE", reason, m.tick,
                        distance, position.feesEarned, position.currentValue,
                        position.totalReturn))]

rebalancePositionV1(c, i, position, distance, m, now) ==
    LET newLower == roundDownToSpacing(m.tick - MathFloorDiv(m.W, 2), m.spacing)
        newUpper == newLower + m.W
        currentPositionValue ==
            calculateCurrentPositionValue(position, m.price, m.tick)
        newAmountUsd == Max2(currentPositionValue + position.feesEarned,
                             (position.amountUsd * 8) \div 10)
        tokens == calculateLiquidity(newAmountUsd, m.price)
        moved == [position EXCEPT
                     !.rebalanceCount = @ + 1,
                     !.lastRebalanceAt = now,
                     !.lower = newLower,
                     !.upper = newUpper,
                     !.entryTick = m.tick,
                     !.entryPrice = m.price,
                     !.amountUsd = newAmountUsd,
                     !.token0Amount = tokens.token0Amount,
                     !.token1Amount = tokens.token1Amount,
                     !.feesEarned = 0]
    IN  [state |-> [c.state EXCEPT
                       !.positions[i] = moved,
                       !.totalGasSpent = @ + c.state.gasCostPerTransaction],
         log |-> Append(c.log,
                    logPositionDecision(moved, i, "REBALANCE", "rebalance",
                        m.tick, distance, position.feesEarned,
                        position.currentValue, position.totalReturn))]

\* The chain with its first two tests exchanged: rebalance before close.
processExistingPositionV1RebalanceFirst(c, i, m, now) ==
    LET position == updateMetrics(c.state.positions[i], m, now)
        distance == calculatePositionDistance(m.tick, position)
        keep(action) ==
            [state |-> [c.state EXCEPT !.positions[i] = position],
             log |-> Append(c.log,
                        logPositionDecision(position, i, action, action, m.tick,
                            distance, position.feesEarned, position.currentValue,
                            position.totalReturn))]
    IN  IF shouldRebalancePosition(position, m.tick, m.price, m.W, m.B, now)
        THEN rebalancePositionV1(c, i, position, distance, m, now)
        ELSE IF shouldClosePosition(m.tick, position, m.D, now)
        THEN closePositionV1(c, i, position, distance, m, now)
        ELSE IF shouldHoldPosition(m.tick, position, m.B)
        THEN keep("HOLD")
        ELSE keep("MONITOR")

processExistingPositionV1(c, i, m, now) ==
    LET position == updateMetrics(c.state.positions[i], m, now)
        distance == calculatePositionDistance(m.tick, position)
        keep(action) ==
            [state |-> [c.state EXCEPT !.positions[i] = position],
             log |-> Append(c.log,
                        logPositionDecision(position, i, action, action, m.tick,
                            distance, position.feesEarned, position.currentValue,
                            position.totalReturn))]
    IN  IF shouldClosePosition(m.tick, position, m.D, now)
        THEN closePositionV1(c, i, position, distance, m, now)
        ELSE IF shouldRebalancePosition(position, m.tick, m.price, m.W, m.B, now)
        THEN rebalancePositionV1(c, i, position, distance, m, now)
        ELSE IF shouldHoldPosition(m.tick, position, m.B)
        THEN keep("HOLD")
        ELSE keep("MONITOR")

\* Math.sqrt(variance) / 100 of the positions' totalReturn, as a fixed-point
\* number; positions is a set of indices.
calculateMarketVolatility(state, positions) ==
    LET n == Cardinality(positions)
        ret(i) == state.positions[i].totalReturn
        RECURSIVE SumRet(_)
        SumRet(S) == IF S = {} THEN 0
                     ELSE LET x == CHOOSE y \in S : TRUE
                          IN  ret(x) + SumRet(S \ {x})
        mean == SumRet(positions) \div n
        RECURSIVE SumSq(_)
        SumSq(S) == IF S = {} THEN 0
                    ELSE LET x == CHOOSE y \in S : TRUE
                         IN  (ret(x) - mean) * (ret(x) - mean) + SumSq(S \ {x})
        variance == SumSq(positions) \div n
    IN  IF n < 2 THEN 0
        ELSE IF variance = 0 THEN 0 ELSE NewtonSqrt(variance, variance)

\* healthyPositions / positions.length, as a fixed-point number.
calculatePortfolioHealth(state, positions) ==
    LET healthyPositions ==
            {i \in positions : state.positions[i].totalReturn > -Percent(5)}
    IN  IF positions = {} THEN PriceScale
        ELSE (Cardinality(healthyPositions) * PriceScale)
                 \div Cardinality(positions)

checkForNewPositionV1(c, m, now) ==
    LET state == c.state
        activePositions == getActivePositions(state)
        availableAmount == state.totalUsdLimit - state.totalUsdInvested
        amountUsd == Min2(state.maxUsdPerPosition, availableAmount)
        recentlyClosed ==
            \E j \in 1..Len(state.positions) :
                /\ state.positions[j].status = "closed"
                /\ state.positions[j].lastUpdateAt > now - 10
        dist(j) == calculatePositionDistance(m.tick, state.positions[j])
        outOfRange == \E j \in activePositions : dist(j) = -1
        allPositionsSafe == \A j \in activePositions : dist(j) >= m.B
        \* totalRisk < 0.3, with totalRisk the sum of (B - distance) / B
        lowRisk ==
            LET RECURSIVE Risk(_)
                Risk(S) == IF S = {} THEN 0
                           ELSE LET j == CHOOSE y \in S : TRUE
                                IN  (IF dist(j) < m.B THEN m.B - dist(j) ELSE 0)
                                        + Risk(S \ {j})
            IN  Risk(activePositions) * 10 < 3 * m.B
        minDistanceOk == \A j \in activePositions : dist(j) >= m.B * 2
        overlappingPositions ==
            Cardinality({j \in activePositions :
                            /\ m.tick >= state.positions[j].lower
                            /\ m.tick <= state.positions[j].upper})
        shouldAdd ==
            IF activePositions = {} THEN TRUE
            ELSE /\ allPositionsSafe \/ lowRisk
                 /\ overlappingPositions = 0
                 /\ minDistanceOk
                 /\ calculateMarketVolatility(state, activePositions) * 10
                        < 2 * PriceScale
                 /\ calculatePortfolioHealth(state, activePositions) * 10
                        > 8 * PriceScale
        newPosition == createNewPosition(m.lowerReco, m.upperReco, m.tick,
                           m.price, amountUsd,
                           calculateLiquidity(amountUsd, m.price), now)
    IN  IF Cardinality(activePositions) >= state.maxPositions THEN c
        ELSE IF amountUsd < Dollars(500) THEN c
        ELSE IF activePositions # {} /\ recentlyClosed THEN c
        ELSE IF activePositions # {} /\ outOfRange THEN c
        ELSE IF shouldAdd /\ canAddPosition(state, amountUsd)
        THEN [state |-> [state EXCEPT
                            !.positions = Append(@, newPosition),
                            !.totalUsdInvested = @ + amountUsd,
                            !.totalGasSpent = @ + state.gasCostPerTransaction],
              log |-> Append(c.log,
                         logPositionDecision(newPosition, Len(state.positions) + 1,
                             "ADD", "add", m.tick, 0, 0, amountUsd, 0))]
        ELSE c

\* for (const position of activePositions) await processExistingPosition(...)
RECURSIVE forEachActiveV1(_, _, _, _, _)
forEachActiveV1(c, i, activePositions, m, now) ==
    IF i > Len(c.state.positions) THEN c
    ELSE forEachActiveV1(
             IF i \in activePositions
             THEN processExistingPositionV1(c, i, m, now) ELSE c,
             i + 1, activePositions, m, now)

processPositionsV1(state, m, now) ==
    checkForNewPositionV1(
        forEachActiveV1([state |-> state, log |-> <<>>], 1,
                        getActivePositions(state), m, now),
        m, now)

(***************************************************************************)
(* portfolioManager.ts, second revision (suffix V2).                       *)
(***************************************************************************)
closePositionV2(c, i, position, distance, m, now) ==
    LET closed == [position EXCEPT !.status = "closed", !.lastUpdateAt = now]
        reason == IF distance = -1 THEN "Price out of range"
                  ELSE "Price near edge"
    IN  [state |-> [c.state EXCEPT
                       !.positions[i] = closed,
                       !.totalGasSpent = @ + c.state.gasCostPerTransaction],
         log |-> Append(c.log,
                    logPositionDecision(closed, i, "CLOSE", reason, m.tick,
                        distance, position.feesEarned, position.currentValue,
                        position.totalReturn))]

rebalancePositionV2(c, i, position, distance, m, now) ==
    LET rangeWidth0 == IF position.totalReturn > Percent(20) THEN 30
                       ELSE IF position.totalReturn < -Percent(10) THEN 60
                       ELSE 40
        rangeWidth == MathCeilDiv(rangeWidth0, m.spacing) * m.spacing
        newLower == roundDownToSpacing(m.tick - MathFloorDiv(rangeWidth, 2),
                                       m.spacing)
        newUpper == newLower + rangeWidth
        newAmountUsd == Max2(position.currentValue + position.feesEarned,
                             (position.amountUsd * 8) \div 10)
        tokens == calculateLiquidity(newAmountUsd, m.price)
        moved == [position EXCEPT
                     !.rebalanceCount = @ + 1,
                     !.lastRebalanceAt = now,
                     !.lower = newLower,
                     !.upper = newUpper,
                     !.entryTick = m.tick,
                     !.entryPrice = m.price,
                     !.amountUsd = newAmountUsd,
                     !.token0Amount = tokens.token0Amount,
                     !.token1Amount = tokens.token1Amount,
                     !.feesEarned = 0]
    IN  [state |-> [c.state EXCEPT
                       !.positions[i] = moved,
                       !.totalGasSpent = @ + c.state.gasCostPerTransaction],
         log |-> Append(c.log,
                    logPositionDecision(moved, i, "REBALANCE", "rebalance",
                        m.tick, distance, position.feesEarned,
                        position.currentValue, position.totalReturn))]

processExistingPositionV2(c, i, m, now) ==
    LET position == updateMetrics(c.state.positions[i], m, now)
        distance == calculatePositionDistance(m.tick, position)
    IN  IF shouldClosePosition(m.tick, position, 0, now)
        THEN closePositionV2(c, i, position, distance, m, now)
        ELSE IF shouldRebalancePosition(position, m.tick, m.price, 0, 0, now)
        THEN rebalancePositionV2(c, i, position, distance, m, now)
        ELSE [state |-> [c.state EXCEPT !.positions[i] = position],
              log |-> Append(c.log,
                         logPositionDecision(position, i, "HOLD", "hold", m.tick,
                             distance, position.feesEarned,
                             position.currentValue, position.totalReturn))]

\* getTotalInvested(): the sum of amountUsd over the active positions.
RECURSIVE getTotalInvested(_, _)
getTotalInvested(state, i) ==
    IF i = 0 THEN 0
    ELSE getTotalInvested(state, i - 1)
            + (IF state.positions[i].status = "active"
               THEN state.positions[i].amountUsd ELSE 0)

\* activePositions as the sequence of records shouldAddNewPosition receives.
RECURSIVE activeRecords(_, _)
activeRecords(state, i) ==
    IF i = 0 THEN <<>>
    ELSE IF state.positions[i].status = "active"
    THEN Append(activeRecords(state, i - 1), state.positions[i])
    ELSE activeRecords(state, i - 1)

checkForNewPositionV2(c, m, now) ==
    LET state == c.state
        currentInvested == getTotalInvested(state, Len(state.positions))
        availableAmount == state.totalUsdLimit - currentInvested
        amountUsd == Min2(state.maxUsdPerPosition, availableAmount)
        signalAnalysis ==
            shouldAddNewPosition(m.tick, m.price, m.twap1h, m.sigma,
                activeRecords(state, Len(state.positions)), state.maxPositions,
                state.totalUsdLimit, state.maxUsdPerPosition)
        finalAmount == IF signalAnalysis.recommendedSize # 0
                       THEN signalAnalysis.recommendedSize ELSE amountUsd
        newPosition == createNewPosition(m.lowerReco, m.upperReco, m.tick,
                           m.price, finalAmount,
                           calculateLiquidity(finalAmount, m.price), now)
    IN  IF amountUsd < Dollars(500) THEN c
        ELSE IF signalAnalysis.shouldAdd /\ canAddPosition(state, finalAmount)
        THEN [state |-> [state EXCEPT
                            !.positions = Append(@, newPosition),
                            !.totalGasSpent = @ + state.gasCostPerTransaction],
              log |-> Append(c.log,
                         logPositionDecision(newPosition, Len(state.positions) + 1,
                             "ADD", signalAnalysis.reason, m.tick, 0, 0,
                             finalAmount, 0))]
        ELSE c

RECURSIVE forEachActiveV2(_, _, _, _, _)
forEachActiveV2(c, i, activePositions, m, now) ==
    IF i > Len(c.state.positions) THEN c
    ELSE forEachActiveV2(
             IF i \in activePositions
             THEN processExistingPositionV2(c, i, m, now) ELSE c,
             i + 1, activePositions, m, now)

processPositionsV2(state, m, now) ==
    checkForNewPositionV2(
        forEachActiveV2([state |-> state, log |-> <<>>], 1,
                        getActivePositions(state), m, now),
        m, now)

(***************************************************************************)
(* The simulator inside once() of the earlier main.ts (suffix Main), with  *)
(* its own copies of the decision functions.  Its positions have no        *)
(* enhanced fields: the model leaves them at their initial values.         *)
(***************************************************************************)
shouldClosePositionMain(tick, position, D) ==
    LET distance == calculatePositionDistance(tick, position)
    IN  distance = -1 \/ distance < D

shouldHoldPositionMain(tick, position, B) ==
    calculatePositionDistance(tick, position) >= B

\* position.amountUsd * 0.001 * timeHeld * (1 + priceChange), timeHeld in hours
calculateFeesEarnedMain(position, currentPrice, now) ==
    LET timeHeld == calculateTimeHeld(position.enteredAt, now)
        priceChange == IF position.entryPrice = 0 THEN 0
                       ELSE MulDiv(Abs(currentPrice - position.entryPrice),
                                   PriceScale, position.entryPrice)
    IN  MulDiv(MulDiv(position.amountUsd, timeHeld, Hours(1000)),
               PriceScale + priceChange, PriceScale)

\* The ADD_GOOD signal, computed on the ledger as it is before the closes.
\* The loop over the active positions stops at the first one that is out of
\* range or nearer than D to an edge.
addGoodMain(state, m) ==
    LET activePositions == getActivePositions(state)
        dist(j) == calculatePositionDistance(m.tick, state.positions[j])
        stops(j) == dist(j) = -1 \/ dist(j) < m.D
    IN  IF activePositions = {} THEN TRUE
        ELSE \E j \in activePositions :
                /\ ~stops(j)
                /\ dist(j) >= m.B
                /\ m.trendLabel = "sideways"
                /\ \A k \in activePositions : k < j => ~stops(k)

processExistingPositionMain(c, i, m, now) ==
    LET position0 == c.state.positions[i]
        distance == calculatePositionDistance(m.tick, position0)
        feesEarned == calculateFeesEarnedMain(position0, m.price, now)
        position == [position0 EXCEPT !.feesEarned = feesEarned]
        closed == [position EXCEPT !.status = "closed"]
        keep(action) ==
            [state |-> [c.state EXCEPT !.positions[i] = position],
             log |-> Append(c.log,
                        logPositionDecision(position, i, action, action, m.tick,
                            distance, feesEarned, 0, 0))]
    IN  IF shouldClosePositionMain(m.tick, position0, m.D)
        THEN [state |-> [c.state EXCEPT
                            !.positions[i] = closed,
                            !.totalUsdInvested = @ - position0.amountUsd],
              log |-> Append(c.log,
                         logPositionDecision(closed, i, "CLOSE",
                             IF distance = -1
                             THEN "Gia ra khoi dai - dong vi the"
                             ELSE "Gia sat bien - dong de tranh IL",
                             m.tick, distance, feesEarned, 0, 0))]
        ELSE IF shouldHoldPositionMain(m.tick, position0, m.B)
        THEN keep("HOLD")
        ELSE keep("MONITOR")

RECURSIVE forEachActiveMain(_, _, _, _, _)
forEachActiveMain(c, i, activePositions, m, now) ==
    IF i > Len(c.state.positions) THEN c
    ELSE forEachActiveMain(
             IF i \in activePositions
             THEN processExistingPositionMain(c, i, m, now) ELSE c,
             i + 1, activePositions, m, now)

onceMain(state0, m, now) ==
    LET addGood == addGoodMain(state0, m)
        c == forEachActiveMain([state |-> state0, log |-> <<>>], 1,
                               getActivePositions(state0), m, now)
        state == c.state
        amountUsd == Min2(state.maxUsdPerPosition,
                          state.totalUsdLimit - state.totalUsdInvested)
        newPosition ==
            [createNewPosition(m.lowerReco, m.upperReco, m.tick, m.price,
                 amountUsd, [token0Amount |-> 0, token1Amount |-> 0], now)
             EXCEPT !.currentValue = 0]
    IN  IF canAddPosition(state, amountUsd) /\ addGood
        THEN [state |-> [state EXCEPT
                            !.positions = Append(@, newPosition),
                            !.totalUsdInvested = @ + amountUsd],
              log |-> Append(c.log,
                         logPositionDecision(newPosition, Len(state.positions) + 1,
                             "ADD", "add", m.tick, 0, 0, 0, 0))]
        ELSE c

(***************************************************************************)
(* rebalancePosition on its own: the two revisions applied, once or        *)
(* several times in a row, to a position of 1000 dollars opened at tick 0  *)
(* on the recommended range, for every spacing, for the widths the three   *)
(* sizers recommend and for ticks on both sides of 0.  mIn holds the       *)
(* revision, the spacing, the width W and the amount the position was      *)
(* opened with; mOut holds the position, and after a rebalance the tick    *)
(* and the metrics the caller handed over.                                 *)
(***************************************************************************)
MaxRebalances == 2      \* rebalances in a row of the one position

RebalanceTicks == {-MaxTick, -100, -30, -1, 0, 1, 30, 100, MaxTick}

RecommendedWidths(spacing) ==
    {widthFromSigmaMain(s, T_HOURS, Z_CONF, spacing) : s \in {0, 50}}
        \cup {widthFromSigma(s, T_HOURS, Z_CONF, spacing) : s \in {0, 50}}
        \cup {widthFromSigmaClamped(s, T_HOURS, Z_CONF, spacing) : s \in {0, 50}}

OpenedAtZero(spacing, W) ==
    LET lowerReco == roundDownToSpacing(0 - MathFloorDiv(W, 2), spacing)
    IN  createNewPosition(lowerReco, lowerReco + W, 0, tickToPrice(0),
            Dollars(1000), calculateLiquidity(Dollars(1000), tickToPrice(0)), 0)

RebalanceInit ==
    /\ \E r \in {"V1", "V2"}, s \in Spacings :
          \E W \in RecommendedWidths(s) :
              /\ mIn = [revision |-> r, spacing |-> s, W |-> W,
                        opened |-> Dollars(1000)]
              /\ mOut = [op |-> "createNewPosition",
                         position |-> OpenedAtZero(s, W)]
    /\ ScanIdle
    /\ SchedIdle
    /\ LedgerIdle
    /\ DurableIdle

\* What processExistingPosition hands to rebalancePosition at tick t, 25
\* hours after the last step.
Handed(t) ==
    LET now == (mOut.position.rebalanceCount + 1) * Hours(25)
        m == [tick |-> t, price |-> tickToPrice(t), fee |-> Pool.fee,
              spacing |-> mIn.spacing, W |-> mIn.W,
              liquidityFactor |-> 100, randomFactor |-> 100]
        position == updateMetrics(mOut.position, m, now)
    IN  [m |-> m, now |-> now, position |-> position,
         distance |-> calculatePositionDistance(t, position),
         c |-> [state |-> [positions |-> <<position>>, totalGasSpent |-> 0,
                           gasCostPerTransaction |-> Dollars(5)],
                log |-> <<>>]]

Rebalanced1(op, t, h, r) ==
    mOut' = [op |-> op, tick |-> t, feesEarned |-> h.position.feesEarned,
             currentValue |-> h.position.currentValue,
             position |-> r.state.positions[1]]

ApplyRebalanceV1 ==
    /\ mIn.revision = "V1"
    /\ mOut.position.rebalanceCount < MaxRebalances
    /\ \E t \in RebalanceTicks :
          LET h == Handed(t)
          IN  Rebalanced1("rebalancePosition", t, h,
                  rebalancePositionV1(h.c, 1, h.position, h.distance, h.m,
                                      h.now))
    /\ UNCHANGED <<mIn, scanVars, schedVars, ledgerVars, durableVars>>

ApplyRebalanceV2 ==
    /\ mIn.revision = "V2"
    /\ mOut.position.rebalanceCount < MaxRebalances
    /\ \E t \in RebalanceTicks :
          LET h == Handed(t)
          IN  Rebalanced1("rebalancePosition", t, h,
                  rebalancePositionV2(h.c, 1, h.position, h.distance, h.m,
                                      h.now))
    /\ UNCHANGED <<mIn, scanVars, schedVars, ledgerVars, durableVars>>

RebalanceNext == ApplyRebalanceV1 \/ ApplyRebalanceV2

SpecRebalance == RebalanceInit /\ [][RebalanceNext]_vars

(***************************************************************************)
(* processExistingPosition on its own, after a large move of the price:    *)
(* one position of 1000 dollars opened at tick 0 on the range the sizer of *)
(* utils.ts recommends for a wide band, and one evaluation of it at a tick *)
(* far from the entry.  mIn is the revision and the width; mOut is the     *)
(* opened position, and after the evaluation the decision record and the   *)
(* position as the evaluation leaves it.                                   *)
(***************************************************************************)
WideSigmas == {5600, 6000}

FarTicks == {-6900, -6000, -3000, -30, 0, 30, 3000, 6000, 6900, 7100}

DecideInit ==
    /\ \E r \in {"V1", "V2"}, s \in WideSigmas :
          LET W == widthFromSigma(s, T_HOURS, Z_CONF, Pool.tickSpacing)
          IN  /\ mIn = [revision |-> r, spacing |-> Pool.tickSpacing, W |-> W]
              /\ mOut = [op |-> "createNewPosition",
                         position |-> OpenedAtZero(Pool.tickSpacing, W)]
    /\ ScanIdle
    /\ SchedIdle
    /\ LedgerIdle
    /\ DurableIdle

\* The Reading of a cycle at tick t with the band of mIn.
FarReading(t, f) ==
    [tick |-> t, price |-> tickToPrice(t), fee |-> Pool.fee,
     spacing |-> mIn.spacing, W |-> mIn.W,
     B |-> bufferB(mIn.W, mIn.spacing), D |-> dangerD(mIn.W, mIn.spacing),
     liquidityFactor |-> f[1], randomFactor |-> f[2]]

Decided(t, dt, r) ==
    mOut' = [op |-> "processExistingPosition", tick |-> t, held |-> dt,
             before |-> mOut.position, position |-> r.state.positions[1],
             record |-> r.log[1]]

DecideContext ==
    [state |-> [positions |-> <<mOut.position>>, totalUsdInvested |-> Dollars(1000),
                totalGasSpent |-> 0, gasCostPerTransaction |-> Dollars(5)],
     log |-> <<>>]

ApplyProcessV1 ==
    /\ mIn.revision = "V1"
    /\ mOut.op = "createNewPosition"
    /\ \E t \in FarTicks, dt \in {Hours(1), Hours(13), Hours(25)} :
          \E f \in {<<0, 70>>, <<100, 130>>} :
              Decided(t, dt, processExistingPositionV1(DecideContext, 1,
                                 FarReading(t, f), dt))
    /\ UNCHANGED <<mIn, scanVars, schedVars, ledgerVars, durableVars>>

ApplyProcessV2 ==
    /\ mIn.revision = "V2"
    /\ mOut.op = "createNewPosition"
    /\ \E t \in FarTicks, dt \in {Hours(1), Hours(13), Hours(25)} :
          \E f \in {<<0, 70>>, <<100, 130>>} :
              Decided(t, dt, processExistingPositionV2(DecideContext, 1,
                                 FarReading(t, f), dt))
    /\ UNCHANGED <<mIn, scanVars, schedVars, ledgerVars, durableVars>>

DecideNext == ApplyProcessV1 \/ ApplyProcessV2

SpecDecide == DecideInit /\ [][DecideNext]_vars

(***************************************************************************)
(* The ledger over a run of cycles.  Each cycle is one step: the code      *)
(* between loading (or holding) the ledger and saving it awaits nothing    *)
(* that yields to the event loop.                                          *)
(***************************************************************************)
\* The capital policy the state file holds ({...DEFAULT_STATE, ...data}).
Policies ==
    {[maxPositions |-> 1, maxUsdPerPosition |-> Dollars(1000),
      totalUsdLimit |-> Dollars(1000)],
     [maxPositions |-> 2, maxUsdPerPosition |-> Dollars(1000),
      totalUsdLimit |-> Dollars(1000)],
     [maxPositions |-> 2, maxUsdPerPosition |-> Dollars(1000),
      totalUsdLimit |-> Dollars(2000)]}

LedgerTicks == {-30, 0, 1150, 1300, 2310}

\* What pool.observe returned: nothing (the call failed), or the mean ticks
\* over the last five minutes and the last hour.
Observation(kind, tick) ==
    CASE kind = "none" -> <<>>
      [] kind = "flat" -> <<[tick5m |-> tick, tick1h |-> tick]>>
      [] OTHER -> <<[tick5m |-> tick + 1000, tick1h |-> tick]>>

Inputs ==
    {[tick |-> t, obs |-> o, dt |-> d, liquidityFactor |-> f[1],
      randomFactor |-> f[2]] :
        t \in LedgerTicks, o \in {"none", "flat", "up"},
        d \in {Hours(1), Hours(13)}, f \in {<<0, 70>>, <<100, 130>>}}

LedgerInit ==
    /\ variant \in {"V1", "V2", "Main"}
    /\ \E p \in Policies :
          ledger = [positions |-> <<>>, totalUsdInvested |-> 0,
                   totalGasSpent |-> 0, gasCostPerTransaction |-> Dollars(5),
                   maxPositions |-> p.maxPositions,
                   maxUsdPerPosition |-> p.maxUsdPerPosition,
                   totalUsdLimit |-> p.totalUsdLimit]
    /\ clock = 0
    /\ cycles = 0
    /\ poolTick = 0
    /\ records = <<>>
    /\ MathIdle
    /\ ScanIdle
    /\ SchedIdle
    /\ DurableIdle

\* The measurements a cycle reads from the pool, and the time it reads.
Measure(in) == [in EXCEPT !.obs = Observation(in.obs, in.tick)]

Advance(c, in) ==
    /\ ledger' = c.state
    /\ records' = c.log
    /\ poolTick' = in.tick
    /\ clock' = clock + in.dt
    /\ cycles' = cycles + 1
    /\ UNCHANGED <<variant, mathVars, scanVars, schedVars, durableVars>>

CycleV1 ==
    /\ variant = "V1"
    /\ cycles < MaxCycles
    /\ \E in \in Inputs :
          Advance(processPositionsV1(ledger, Reading(TRUE, Measure(in)),
                                     clock + in.dt), in)

CycleV2 ==
    /\ variant = "V2"
    /\ cycles < MaxCycles
    /\ \E in \in Inputs :
          Advance(processPositionsV2(ledger, Reading(TRUE, Measure(in)),
                                     clock + in.dt), in)

CycleMain ==
    /\ variant = "Main"
    /\ cycles < MaxCycles
    /\ \E in \in Inputs :
          Advance(onceMain(ledger, Reading(FALSE, Measure(in)),
                           clock + in.dt), in)

LedgerNext == CycleV1 \/ CycleV2 \/ CycleMain

Spec == LedgerInit /\ [][LedgerNext]_vars

(***************************************************************************)
(* The simulator inside once() of the present main.ts (suffix Sim where a  *)
(* name is taken).  Its state is SimState: positions with a liquidity in   *)
(* dollars and an isActive flag, and the capital counters.  ledger holds   *)
(* the SimState, records the events of the last cycle.  ADD_GOOD depends   *)
(* on the position given in the environment and on the boundary scan; it   *)
(* is an input of the cycle.                                               *)
(***************************************************************************)
\* The hourly fee rate, in thousandths.
SIM_FEE_RATE == 1

SimPolicies ==
    {[totalCapital |-> Dollars(10000), minPositionSize |-> Dollars(1000),
      maxPositions |-> 5],
     [totalCapital |-> Dollars(2500), minPositionSize |-> Dollars(1000),
      maxPositions |-> 2]}

SimInit ==
    /\ variant = "Sim"
    /\ \E p \in SimPolicies :
          ledger = [positions |-> <<>>, totalCapital |-> p.totalCapital,
                    usedCapital |-> 0, nextPositionId |-> 1,
                    minPositionSize |-> p.minPositionSize,
                    maxPositions |-> p.maxPositions]
    /\ clock = 0
    /\ cycles = 0
    /\ poolTick = 0
    /\ records = <<>>
    /\ MathIdle
    /\ ScanIdle
    /\ SchedIdle
    /\ DurableIdle

calculatePositionPnL(position, currentPrice) ==
    IF ~position.isActive THEN position.pnl
    ELSE SMulDiv(currentPrice - position.enteredPrice, position.liquidity,
                 position.enteredPrice)

calculateFeesEarnedSim(position, now) ==
    IF ~position.isActive THEN position.feesEarned
    ELSE position.feesEarned
            + MulDiv(position.liquidity,
                     SIM_FEE_RATE * (now - position.enteredAt),
                     Hours(1000))

SimActive(state) == {i \in DOMAIN state.positions : state.positions[i].isActive}

canAddNewPosition(state) ==
    /\ Cardinality(SimActive(state)) < state.maxPositions
    /\ state.totalCapital - state.usedCapital >= state.minPositionSize

\* The capital the simulation started with, whatever is in use.
getAvailableCapitalIgnoresUsed(state) == state.totalCapital + 0 * state.usedCapital

getAvailableCapital(state) == state.totalCapital - state.usedCapital

shouldClosePositionSim(position, currentTick, D) ==
    /\ position.isActive
    /\ \/ Min2(currentTick - position.lower, position.upper - currentTick) < D
       \/ currentTick < position.lower
       \/ currentTick > position.upper

shouldAddMoreToPosition(position, currentTick, B) ==
    /\ position.isActive
    /\ Min2(currentTick - position.lower, position.upper - currentTick) >= B

SimEvent(event, i) == [event |-> event, positionId |-> i]

\* The body of the loop over st.positions for position i.  c is the state
\* being mutated together with the events pushed so far.
updatePositionSim(c, i, m, addGood, now) ==
    LET st == c.state
        position == [st.positions[i] EXCEPT
                        !.feesEarned = calculateFeesEarnedSim(st.positions[i], now)]
        additionalLiquidity ==
            Min2(MulDiv(getAvailableCapital(st), 3, 10),
                 MulDiv(position.liquidity, 5, 10))
    IN  IF shouldClosePositionSim(position, m.tick, m.D)
        THEN [state |-> [st EXCEPT
                            !.positions[i] =
                                [position EXCEPT
                                    !.isActive = FALSE,
                                    !.closedTick = m.tick,
                                    !.pnl = calculatePositionPnL(position, m.price)],
                            !.usedCapital = @ - position.liquidity],
              events |-> Append(c.events, SimEvent("SIM_REMOVE", i))]
        ELSE IF shouldAddMoreToPosition(position, m.tick, m.B) /\ addGood
        THEN IF additionalLiquidity >= MulDiv(st.minPositionSize, 1, 10)
             THEN [state |-> [st EXCEPT
                                 !.positions[i] =
                                     [position EXCEPT
                                         !.liquidity = @ + additionalLiquidity],
                                 !.usedCapital = @ + additionalLiquidity],
                   events |-> Append(c.events, SimEvent("SIM_ADD_MORE", i))]
             ELSE [state |-> [st EXCEPT !.positions[i] = position],
                   events |-> c.events]
        ELSE [state |-> [st EXCEPT !.positions[i] = position],
              events |-> Append(c.events, SimEvent("SIM_HOLD", i))]

RECURSIVE forEachPositionSim(_, _, _, _, _)
forEachPositionSim(c, i, m, addGood, now) ==
    IF i > Len(c.state.positions) THEN c
    ELSE forEachPositionSim(
             IF c.state.positions[i].isActive
             THEN updatePositionSim(c, i, m, addGood, now) ELSE c,
             i + 1, m, addGood, now)

\* The SIM_MODE block of once(): the loop, the new position, the fallback
\* hold event, and the state that saveState is given.
onceSim(st0, m, addGood, now) ==
    LET c == forEachPositionSim([state |-> st0, events |-> <<>>], 1, m,
                                addGood, now)
        st == c.state
        positionSize == Min2(MulDiv(getAvailableCapital(st), 4, 10),
                             2 * st.minPositionSize)
        newPosition == [lower |-> m.lowerReco, upper |-> m.upperReco,
                        enteredAt |-> now, enteredTick |-> m.tick,
                        enteredPrice |-> m.price, liquidity |-> positionSize,
                        feesEarned |-> 0, isActive |-> TRUE,
                        closedTick |-> 0, pnl |-> 0]
        d == IF addGood /\ canAddNewPosition(st)
             THEN [state |-> [st EXCEPT
                                 !.positions = Append(@, newPosition),
                                 !.usedCapital = @ + positionSize,
                                 !.nextPositionId = @ + 1],
                   events |-> Append(c.events,
                                  SimEvent("SIM_ADD", Len(st.positions) + 1))]
             ELSE c
    IN  IF d.events = <<>> /\ SimActive(d.state) # {}
        THEN [d EXCEPT !.events = <<SimEvent("SIM_HOLD", 0)>>]
        ELSE d

CycleSim ==
    /\ variant = "Sim"
    /\ cycles < MaxCycles
    /\ \E in \in Inputs : \E addGood \in BOOLEAN :
          LET d == onceSim(ledger, Reading(FALSE, Measure(in)), addGood,
                           clock + in.dt)
          IN  /\ ledger' = d.state
              /\ records' = d.events
              /\ poolTick' = in.tick
              /\ clock' = clock + in.dt
              /\ cycles' = cycles + 1
    /\ UNCHANGED <<variant, mathVars, scanVars, schedVars, durableVars>>

SpecSim == SimInit /\ [][CycleSim]_vars

(***************************************************************************)
(* The same cycles with the faults of their environment: a bitmap-word     *)
(* read that rejects, an evaluation of a position that throws, a write of  *)
(* the state file that throws, and a process that stops inside the write.  *)
(* PortfolioManager keeps its ledger in memory (this.state) from one cycle *)
(* to the next; the simulator in once() loads it from the file each cycle. *)
(* stateFile is [kind |-> "complete", data |-> ledger] or                  *)
(* [kind |-> "partial"] for a file cut short, which JSON.parse rejects.    *)
(***************************************************************************)
\* The gas fields belong to the later SimState; the simulator never reads
\* them.  The constants.ts that stateManager.ts imports its DEFAULT_STATE
\* from is taken to hold the same defaults.
DEFAULT_STATE ==
    [positions |-> <<>>, totalUsdInvested |-> 0, totalGasSpent |-> 0,
     gasCostPerTransaction |-> Dollars(5), maxPositions |-> 5,
     maxUsdPerPosition |-> Dollars(10000), totalUsdLimit |-> Dollars(50000)]

\* try { return {...DEFAULT_STATE, ...JSON.parse(readFileSync)} }
\* catch { return DEFAULT_STATE }
loadState(file) ==
    IF file.kind = "complete" THEN file.data ELSE DEFAULT_STATE

\* fs.writeFileSync(STATE_FILE, JSON.stringify(state)): the file is opened
\* with truncation and written in place.  It returns ("ok"), throws with the
\* file not yet opened or already truncated, or the process stops before the
\* open, between the truncation and the last byte, or after the last byte.
DiskOutcomes ==
    {"ok", "throwsUntouched", "throwsTruncated",
     "stopsUntouched", "stopsTruncated", "stopsWritten"}

saveState(file, state, outcome) ==
    CASE outcome \in {"ok", "stopsWritten"} ->
            [kind |-> "complete", data |-> state]
      [] outcome \in {"throwsTruncated", "stopsTruncated"} ->
            [kind |-> "partial"]
      [] OTHER -> file

\* The loop over the active positions up to the one whose evaluation throws
\* (faultAt, 0 for none), then the gate.  Nothing catches inside the loop:
\* the exception leaves processPositions (once) at the faulty position.
evaluated(c, reached, gate) ==
    [state |-> c.state, log |-> c.log, evaluated |-> reached, gate |-> gate]

reachedBefore(state0, faultAt) ==
    {i \in getActivePositions(state0) : i < faultAt}

untilFault(v, c0, reached, m, now) ==
    CASE v = "V1" -> forEachActiveV1(c0, 1, reached, m, now)
      [] v = "V2" -> forEachActiveV2(c0, 1, reached, m, now)
      [] OTHER -> forEachActiveMain(c0, 1, reached, m, now)

evaluate(v, state0, m, now, faultAt) ==
    IF faultAt = 0
    THEN evaluated(CASE v = "V1" -> processPositionsV1(state0, m, now)
                     [] v = "V2" -> processPositionsV2(state0, m, now)
                     [] OTHER -> onceMain(state0, m, now),
                   getActivePositions(state0), TRUE)
    ELSE evaluated(untilFault(v, [state |-> state0, log |-> <<>>],
                              reachedBefore(state0, faultAt), m, now),
                   reachedBefore(state0, faultAt), FALSE)

FaultInputs ==
    {in \in Inputs : /\ in.tick \in {0, 1300}
                     /\ in.obs \in {"none", "up"}
                     /\ in.dt = Hours(1)
                     /\ in.randomFactor = 70}

FaultsInit ==
    /\ variant \in {"V1", "V2", "Main"}
    /\ \E p \in Policies :
          ledger = [positions |-> <<>>, totalUsdInvested |-> 0,
                    totalGasSpent |-> 0, gasCostPerTransaction |-> Dollars(5),
                    maxPositions |-> p.maxPositions,
                    maxUsdPerPosition |-> p.maxUsdPerPosition,
                    totalUsdLimit |-> p.totalUsdLimit]
    /\ stateFile = [kind |-> "complete", data |-> ledger]
    /\ io = [status |-> "up", step |-> "boot"]
    /\ clock = 0
    /\ cycles = 0
    /\ poolTick = 0
    /\ records = <<>>
    /\ MathIdle
    /\ ScanIdle
    /\ SchedIdle

\* What the cycle saw of its environment.
seen(state0, m, in, bitmapOk, faultAt) ==
    [status |-> "up", oracleOk |-> in.obs # "none", bitmapOk |-> bitmapOk,
     W |-> m.W, lowerReco |-> m.lowerReco,
     active |-> getActivePositions(state0), faultAt |-> faultAt]

\* The account of a cycle the exception left at step, before any write.
left(s, step, r) ==
    s @@ [step |-> step, evaluated |-> r.evaluated, gate |-> r.gate,
          writes |-> 0]

\* The account of a cycle that reached saveState.
wrote(s, r, file, outcome) ==
    [s EXCEPT !.status = IF outcome \in {"stopsUntouched", "stopsTruncated",
                                         "stopsWritten"}
                         THEN "stopped" ELSE "up"]
    @@ [step |-> IF outcome = "ok" THEN "saved" ELSE "save",
        outcome |-> outcome, evaluated |-> r.evaluated, gate |-> r.gate,
        writes |-> 1, old |-> file, new |-> r.state]

finish(memory, file, s, r, bitmapOk, faultAt, outcome) ==
    IF ~bitmapOk
    THEN \* Promise.all of the bitmap words rejects
         [ledger |-> memory, records |-> <<>>, stateFile |-> file,
          io |-> left(s, "bitmap", [evaluated |-> {}, gate |-> FALSE])]
    ELSE IF faultAt # 0
    THEN [ledger |-> r.state, records |-> r.log, stateFile |-> file,
          io |-> left(s, "position", r)]
    ELSE [ledger |-> r.state, records |-> r.log,
          stateFile |-> saveState(file, r.state, outcome),
          io |-> wrote(s, r, file, outcome)]

\* One cycle: the reads, the evaluation of the positions, the gate and the
\* save, up to the point where an exception leaves it or the process stops.
\* The result holds the ledger in memory, the records written, the state
\* file and the account of the cycle.
runFrom(v, memory, file, state0, m, in, now, bitmapOk, faultAt, outcome) ==
    finish(memory, file, seen(state0, m, in, bitmapOk, faultAt),
           evaluate(v, state0, m, now, faultAt), bitmapOk, faultAt, outcome)

runCycle(v, memory, file, in, now, bitmapOk, faultAt, outcome) ==
    runFrom(v, memory, file,
            IF v = "Main" THEN loadState(file) ELSE memory,
            Reading(v # "Main", Measure(in)), in, now, bitmapOk, faultAt,
            outcome)

CycleWithFaults ==
    /\ io.status = "up"
    /\ cycles < MaxCycles
    /\ \E in \in FaultInputs, bitmapOk \in BOOLEAN, outcome \in DiskOutcomes :
          \E faultAt \in {0} \cup getActivePositions(
                  IF variant = "Main" THEN loadState(stateFile) ELSE ledger) :
             LET c == runCycle(variant, ledger, stateFile, in, clock + in.dt,
                               bitmapOk, faultAt, outcome)
             IN  /\ ledger' = c.ledger
                 /\ records' = c.records
                 /\ stateFile' = c.stateFile
                 /\ io' = c.io
                 /\ poolTick' = in.tick
                 /\ clock' = clock + in.dt
    /\ cycles' = cycles + 1
    /\ UNCHANGED <<variant, mathVars, scanVars, schedVars>>

\* The process is started again: the constructor (or the next once) loads
\* the state file.  The run is followed up to here.
Restart ==
    /\ io.status = "stopped"
    /\ ledger' = loadState(stateFile)
    /\ io' = [io EXCEPT !.status = "restarted"]
    /\ UNCHANGED <<variant, clock, cycles, poolTick, records, stateFile,
                   mathVars, scanVars, schedVars>>

FaultsNext == CycleWithFaults \/ Restart

SpecFaults == FaultsInit /\ [][FaultsNext]_vars

(***************************************************************************)
(* Properties of the tick arithmetic and of the boundary scan.             *)
(***************************************************************************)
\* C8: for every integer tick and positive spacing, roundDownToSpacing returns
\* the greatest multiple of spacing that is <= tick:
\* result <= tick < result + spacing.
C8_RoundDownIsFloor ==
    mOut.op = "roundDownToSpacing" =>
        /\ mOut.result % mIn.spacing = 0
        /\ mOut.result <= mIn.tick
        /\ mIn.tick < mOut.result + mIn.spacing

\* C9: for every integer tick and positive spacing,
\* wordOfTick*256 + bitPosOfTick = floorDiv(tick, spacing), 0 <= bit <= 255,
\* also for negative ticks off the spacing grid.
C9_WordBitDecompose ==
    mOut.op = "wordBit" =>
        /\ mOut.word * 256 + mOut.bit = mIn.tick \div mIn.spacing
        /\ mOut.bit >= 0
        /\ mOut.bit <= 255

\* C10: given the active position (word, bit) and radius r, rightTick is the
\* set bit with the smallest index strictly after (word, bit) within words
\* word..word+r, leftTick the set bit with the largest index strictly before
\* it within words word-r..word, each converted to (w*256+b)*spacing; a side
\* is null exactly when its window holds no set bit.
C10_ScanFindsNearest ==
    scOut.op = "scan" =>
        LET aw == wordOfTick(scIn.tick, scIn.spacing)
            ab == bitPosOfTick(scIn.tick, scIn.spacing)
            pos == aw * 256 + ab
            rightWin == {c \in scIn.bitmap :
                            c > pos /\ c <= (aw + scIn.radius) * 256 + 255}
            leftWin == {c \in scIn.bitmap :
                            c < pos /\ c >= (aw - scIn.radius) * 256}
        IN  /\ scOut.res.rightTick =
                  IF rightWin = {} THEN <<>>
                  ELSE <<SetMin(rightWin) * scIn.spacing>>
            /\ scOut.res.leftTick =
                  IF leftWin = {} THEN <<>>
                  ELSE <<SetMax(leftWin) * scIn.spacing>>

\* A scan from a negative word that finds its right neighbour in a later word
\* and its left neighbour in an earlier word.
C10_Witness ==
    /\ scOut.op = "scan"
    /\ scIn.radius = 1
    /\ scIn.spacing = 60
    /\ wordOfTick(scIn.tick, scIn.spacing) = -1
    /\ Len(scOut.res.rightTick) = 1
    /\ Len(scOut.res.leftTick) = 1
    /\ scOut.res.rightTick[1] >= 0
    /\ scOut.res.leftTick[1] < -256 * 60

\* C11: a reported rightTick is strictly greater than the current tick and a
\* reported leftTick strictly less, for every tick, negative ticks off the
\* spacing grid included.
C11_ScanSides ==
    scOut.op = "scan" =>
        /\ \A i \in DOMAIN scOut.res.rightTick :
              scOut.res.rightTick[i] > scIn.tick
        /\ \A i \in DOMAIN scOut.res.leftTick :
              scOut.res.leftTick[i] < scIn.tick

(***************************************************************************)
(* Properties of the range sizer.                                          *)
(***************************************************************************)
\* C12: with sigma = 0 each widthFromSigma returns exactly its minimum
\* number of spacing units, which is strictly positive, whatever the horizon
\* and z.
C12_ZeroSigmaGivesMinimum ==
    (mOut.op = "widthFromSigma" /\ mIn.sigma = 0) =>
        /\ mOut.W = mOut.minimum * mIn.spacing
        /\ mOut.W > 0

C12_Witness ==
    /\ mOut.op = "widthFromSigma"
    /\ mIn.sigma = 0
    /\ mIn.T_hours = 24
    /\ mIn.z = 128
    /\ mIn.spacing = 60
    /\ mOut.W = 360

\* C13: for every sigma >= 0 the width is a multiple of spacing and lies
\* between the minimum and the maximum number of spacing units (4 and 20
\* where the code has a maximum).
C13_WidthWithinClamp ==
    mOut.op = "widthFromSigma" =>
        /\ mOut.W % mIn.spacing = 0
        /\ mOut.W >= mOut.minimum * mIn.spacing
        /\ mOut.W <= 20 * mIn.spacing

\* C14: for every width the sizer returns, bufferB and dangerD are multiples
\* of spacing and at least their minimum number of spacing units.
C14_ThresholdsOnSpacing ==
    mOut.op = "thresholds" =>
        /\ mOut.B % mIn.spacing = 0
        /\ mOut.D % mIn.spacing = 0
        /\ mOut.B >= 2 * mIn.spacing
        /\ mOut.D >= mOut.minimumD * mIn.spacing

\* C39: for every width W that widthFromSigma returns and the danger
\* threshold derived from it, the two danger zones do not cover the range:
\* 2 * dangerD(W, spacing) < W.
C39_DangerZonesLeaveRoom ==
    mOut.op = "thresholds" => 2 * mOut.D < mOut.W

\* C40: the danger threshold is never larger than the buffer threshold
\* derived from the same width: dangerD(W, spacing) <= bufferB(W, spacing).
C40_DangerWithinBuffer ==
    mOut.op = "thresholds" => mOut.D <= mOut.B

(***************************************************************************)
(* Properties of the bucket analysis.                                      *)
(***************************************************************************)
Analyzed == mOut.op \in {"analyzeTickRange", "analyzeBinEdges"}

\* C23: for every tick, negative ones included, and every spacing the bucket
\* is the one of the grid with lowerTick <= tick < lowerTick + spacing, the
\* two proportional distances add up to 1, and the nearest side is a side
\* with the smaller distance; tick 100 with spacing 60 gives [60, 120),
\* 40/60 and 20/60, nearest side upper.
C23_BucketEnclosesTick ==
    Analyzed =>
        LET a == mOut.analysis
            sum == RatioSum(a.distanceToLowerPct, a.distanceToUpperPct)
        IN  /\ a.lowerTick % mIn.spacing = 0
            /\ a.lowerTick <= mIn.tick
            /\ mIn.tick < a.lowerTick + mIn.spacing
            /\ a.upperTick = a.lowerTick + mIn.spacing
            /\ a.distanceToLowerPct.den > 0
            /\ a.distanceToUpperPct.den > 0
            /\ a.distanceToLowerPct.num = mIn.tick - a.lowerTick
            /\ sum.num = sum.den
            /\ a.nearestSide \in {"lower", "upper"}
            /\ a.nearestSide = "lower" =>
                  /\ RatioLeq(a.distanceToLowerPct, a.distanceToUpperPct)
                  /\ a.nearestDistancePct = a.distanceToLowerPct
            /\ a.nearestSide = "upper" =>
                  /\ RatioLeq(a.distanceToUpperPct, a.distanceToLowerPct)
                  /\ a.nearestDistancePct = a.distanceToUpperPct
            /\ (mIn.tick = 100 /\ mIn.spacing = 60) =>
                  /\ a.lowerTick = 60
                  /\ a.upperTick = 120
                  /\ a.distanceToLowerPct = Ratio(40, 60)
                  /\ a.distanceToUpperPct = Ratio(20, 60)
                  /\ a.nearestSide = "upper"

C23_Witness ==
    /\ mOut.op = "analyzeBinEdges"
    /\ mIn.tick = -100
    /\ mIn.spacing = 60
    /\ mOut.analysis.lowerTick = -120
    /\ mOut.analysis.nearestSide = "lower"

\* C24: the risk zone is danger/avoid iff nearestPct <= 0.10, warning/caution
\* iff 0.10 < nearestPct <= 0.20, safe/add iff 0.20 < nearestPct <= the
\* configured safe threshold, and optimal/excellent otherwise.
C24_ZoneFollowsThresholds ==
    Analyzed =>
        LET a == mOut.analysis
            p == a.nearestDistancePct
            zone == <<a.riskLevel, a.lpRecommendation>>
        IN  /\ zone = <<"danger", "avoid">>
                <=> RatioLeq(p, DANGER_ZONE_THRESHOLD)
            /\ zone = <<"warning", "caution">>
                <=> /\ RatioLess(DANGER_ZONE_THRESHOLD, p)
                    /\ RatioLeq(p, WARNING_ZONE_THRESHOLD)
            /\ zone = <<"safe", "add">>
                <=> /\ RatioLess(WARNING_ZONE_THRESHOLD, p)
                    /\ RatioLeq(p, SAFE_ZONE_THRESHOLD)
            /\ zone = <<"optimal", "excellent">>
                <=> RatioLess(SAFE_ZONE_THRESHOLD, p)

C31_ReturnThresholdCloses ==
    mOut.op = "processExistingPosition" =>
        ((mOut.record.totalReturn > Percent(40)
            \/ mOut.record.totalReturn < -Percent(25)) =>
                /\ mOut.record.action = "CLOSE"
                /\ mOut.position.status = "closed")

(***************************************************************************)
(* Properties of the tick the event monitor tracks.                        *)
(***************************************************************************)
\* C37: when swap handlers and periodic polls overlap, a tick that was read
\* before an await is neither written to currentTick nor logged as the
\* target of a tick change once the tick of a later swap has been applied:
\* the swap number behind currentTick never goes back, and no change is
\* logged towards an older swap than the one currentTick holds.
C37_NoStaleTick ==
    [][/\ ledger'.seq >= ledger.seq
       /\ Len(records') > Len(records) =>
              records'[Len(records')].seq >= ledger.seq]_vars

(***************************************************************************)
(* Properties of the scheduling.                                           *)
(***************************************************************************)
\* C4: at most one evaluation cycle is executing at any time; a timer tick or
\* a market event that arrives while a cycle is in progress, suspended on a
\* data fetch included, does not start a second concurrent cycle.
C4_OneCycleAtATime == Cardinality(Running) <= 1

\* C19: after a shutdown signal no evaluation is started, and an evaluation
\* in progress has run to completion (and the state has been written) by the
\* time the process exits.
C19_ShutdownDrains == phase = "exited" => Running = {}

(***************************************************************************)
(* Properties of the ledger.                                               *)
(***************************************************************************)
ActiveUsd == getTotalInvested(ledger, Len(ledger.positions))

RecordsOf(log, i) == {k \in DOMAIN log : log[k].positionId = i}

\* C1: after every evaluation cycle the sum of amountUsd over the active
\* positions is at most totalUsdLimit.
C1_ActiveSumWithinLimit == ActiveUsd <= ledger.totalUsdLimit

\* C2: after every evaluation cycle the number of active positions is at
\* most maxPositions.
C2_ActiveCountWithinMax ==
    variant # "none" =>
        Cardinality(getActivePositions(ledger)) <= ledger.maxPositions

C2_Witness ==
    /\ variant # "none"
    /\ ledger.maxPositions = 2
    /\ Cardinality(getActivePositions(ledger)) = 2
    /\ \E k \in DOMAIN records : records[k].action # "ADD"

\* C3: a closed position stays closed in every later cycle, unchanged, and
\* the cycle writes no CLOSE, REBALANCE, HOLD or MONITOR record for it.
C3_ClosedIsTerminal ==
    [][\A i \in DOMAIN ledger.positions :
          ledger.positions[i].status = "closed" =>
              /\ ledger'.positions[i] = ledger.positions[i]
              /\ RecordsOf(records', i) = {}]_vars

C3_Witness ==
    /\ records # <<>>
    /\ \E i \in DOMAIN ledger.positions :
          /\ ledger.positions[i].status = "closed"
          /\ RecordsOf(records, i) = {}

OutOfRangeReasons == {"Price out of range", "Gia ra khoi dai - dong vi the"}

\* C5: in a cycle whose tick is below lower or above upper of an active
\* position the distance is -1, the position is closed in that cycle, and the
\* CLOSE record gives an out-of-range reason.
C5_OutOfRangeCloses ==
    [][\A i \in getActivePositions(ledger) :
          (poolTick' < ledger.positions[i].lower
             \/ poolTick' > ledger.positions[i].upper) =>
              /\ calculatePositionDistance(poolTick', ledger.positions[i]) = -1
              /\ ledger'.positions[i].status = "closed"
              /\ \E k \in RecordsOf(records', i) :
                    /\ records'[k].action = "CLOSE"
                    /\ records'[k].distance = -1
                    /\ records'[k].reason \in OutOfRangeReasons]_vars

C5_Witness ==
    \E k \in DOMAIN records :
        /\ records[k].action = "CLOSE"
        /\ records[k].distance = -1
        /\ (poolTick < records[k].positionRange[1]
              \/ poolTick > records[k].positionRange[2])
        /\ ledger.positions[records[k].positionId].status = "closed"

\* C6: when totalUsdInvested equals totalUsdLimit at the capital gate, the
\* cycle opens no position.
C6_NoAddAtLimit ==
    \A k \in DOMAIN records :
        records[k].action = "ADD" =>
            ledger.totalUsdInvested - records[k].amountUsd
                # ledger.totalUsdLimit

\* C7: every position created or rebalanced has lower and upper that are
\* multiples of tickSpacing, with lower < upper.
C7_RangesOnSpacing ==
    \A i \in DOMAIN ledger.positions :
        LET position == ledger.positions[i]
        IN  /\ position.lower % Pool.tickSpacing = 0
            /\ position.upper % Pool.tickSpacing = 0
            /\ position.lower < position.upper

C7_Witness ==
    /\ \E i \in DOMAIN ledger.positions : ledger.positions[i].rebalanceCount > 0
    /\ \E i \in DOMAIN ledger.positions :
          /\ ledger.positions[i].entryTick < 0
          /\ ledger.positions[i].lower < 0

\* C15: at creation and after any number of rebalances a position's amountUsd
\* is at most maxUsdPerPosition.
C15_AmountWithinPositionMax ==
    \A i \in DOMAIN ledger.positions :
        ledger.positions[i].amountUsd <= ledger.maxUsdPerPosition

\* The context a cycle of variant v hands to its new-position request once
\* the loop over the active positions is done, and the context the request
\* returns.
RequestIn(v, state, m, now) ==
    CASE v = "V1" -> forEachActiveV1([state |-> state, log |-> <<>>], 1,
                                     getActivePositions(state), m, now)
      [] v = "V2" -> forEachActiveV2([state |-> state, log |-> <<>>], 1,
                                     getActivePositions(state), m, now)
      [] OTHER -> forEachActiveMain([state |-> state, log |-> <<>>], 1,
                                    getActivePositions(state), m, now)

RequestOut(v, state, c, m, now) ==
    CASE v = "V1" -> checkForNewPositionV1(c, m, now)
      [] v = "V2" -> checkForNewPositionV2(c, m, now)
      [] OTHER -> onceMain(state, m, now)

\* The amount the request of variant v asks for, before and after sizing.
TicketOf(v, state) ==
    Min2(state.maxUsdPerPosition,
         state.totalUsdLimit
            - (IF v = "V2" THEN getTotalInvested(state, Len(state.positions))
               ELSE state.totalUsdInvested))

AmountOf(v, state, m) ==
    IF v # "V2" THEN TicketOf(v, state)
    ELSE LET size == shouldAddNewPosition(m.tick, m.price, m.twap1h, m.sigma,
                         activeRecords(state, Len(state.positions)),
                         state.maxPositions, state.totalUsdLimit,
                         state.maxUsdPerPosition).recommendedSize
         IN  IF size # 0 THEN size ELSE TicketOf(v, state)

\* Rejected for capital: the ticket is below the minimum of 500 dollars
\* (portfolioManager only), or the amount fails one of the three tests of
\* canAddPosition.
CapitalRejected(v, state, m) ==
    \/ v # "Main" /\ TicketOf(v, state) < Dollars(500)
    \/ Cardinality({i \in DOMAIN state.positions :
                       state.positions[i].status = "active"})
          >= state.maxPositions
    \/ state.totalUsdInvested + AmountOf(v, state, m) > state.totalUsdLimit
    \/ AmountOf(v, state, m) > state.maxUsdPerPosition

RequestLeaves(c, r) ==
    /\ r.state.positions = c.state.positions
    /\ r.state.totalUsdInvested = c.state.totalUsdInvested
    /\ r.state.totalGasSpent = c.state.totalGasSpent
    /\ r.log = c.log

RequestFrame(v, state, m, now) ==
    LET c == RequestIn(v, state, m, now)
    IN  CapitalRejected(v, c.state, m) =>
            RequestLeaves(c, RequestOut(v, state, c, m, now))

\* C21: a new-position request rejected for capital reasons (ticket below
\* the minimum, or canAddPosition false) leaves the position list,
\* totalUsdInvested and totalGasSpent as they were and emits no ADD record.
C21_RejectedRequestChangesNothing ==
    variant # "none" =>
        \A in \in Inputs :
            RequestFrame(variant, ledger,
                         Reading(variant # "Main", Measure(in)), clock + in.dt)

C21_Witness ==
    /\ variant = "V1"
    /\ ledger.positions # <<>>
    /\ \E in \in Inputs :
          LET m == Reading(TRUE, Measure(in))
              c == RequestIn("V1", ledger, m, clock + in.dt)
          IN  /\ Cardinality(getActivePositions(c.state)) < c.state.maxPositions
              /\ TicketOf("V1", c.state) < Dollars(500)
              /\ c.log # <<>>
              /\ checkForNewPositionV1(c, m, clock + in.dt) = c

\* C22: for a position that stays active, feesEarned at the end of a cycle
\* is never smaller than at the end of the previous cycle.
C22_FeesNeverDecrease ==
    [][\A i \in DOMAIN ledger.positions :
          (ledger.positions[i].status = "active"
             /\ ledger'.positions[i].status = "active") =>
              ledger'.positions[i].feesEarned
                  >= ledger.positions[i].feesEarned]_vars

\* The position a cycle of variant v evaluates, and the conditions its chain
\* of decisions tests on it.
Evaluated(v, position, m, now) ==
    IF v = "Main" THEN position ELSE updateMetrics(position, m, now)

CloseHolds(v, position, m, now) ==
    CASE v = "V1" -> shouldClosePosition(m.tick, position, m.D, now)
      [] v = "V2" -> shouldClosePosition(m.tick, position, 0, now)
      [] OTHER -> shouldClosePositionMain(m.tick, position, m.D)

RebalanceHolds(v, position, m, now) ==
    CASE v = "V1" -> shouldRebalancePosition(position, m.tick, m.price,
                                             m.W, m.B, now)
      [] v = "V2" -> shouldRebalancePosition(position, m.tick, m.price,
                                             0, 0, now)
      [] OTHER -> FALSE

HoldHolds(v, position, m) ==
    CASE v = "V1" -> shouldHoldPosition(m.tick, position, m.B)
      [] v = "V2" -> TRUE
      [] OTHER -> shouldHoldPositionMain(m.tick, position, m.B)

Decisions == {"CLOSE", "REBALANCE", "HOLD", "MONITOR"}

DecisionInOrder(v, state, i, m, now) ==
    LET log == RequestIn(v, state, m, now).log
        position == Evaluated(v, state.positions[i], m, now)
        close == CloseHolds(v, position, m, now)
        rebalance == RebalanceHolds(v, position, m, now)
        hold == HoldHolds(v, position, m)
    IN  /\ Cardinality(RecordsOf(log, i)) = 1
        /\ \A k \in RecordsOf(log, i) :
              /\ log[k].action \in Decisions
              /\ close => log[k].action = "CLOSE"
              /\ (~close /\ rebalance) => log[k].action = "REBALANCE"
              /\ (~close /\ ~rebalance /\ hold) => log[k].action = "HOLD"
              /\ (~close /\ ~rebalance /\ ~hold) => log[k].action = "MONITOR"

\* C25: each active position receives exactly one decision per cycle, in the
\* order close, rebalance, hold, monitor: close wins over rebalance and
\* hold, and rebalance wins over hold.
C25_OneDecisionInOrder ==
    variant # "none" =>
        \A in \in Inputs : \A i \in getActivePositions(ledger) :
            DecisionInOrder(variant, ledger, i,
                Reading(variant # "Main", Measure(in)), clock + in.dt)

C25_Witness ==
    /\ variant = "V1"
    /\ \E in \in Inputs : \E i \in getActivePositions(ledger) :
          LET m == Reading(TRUE, Measure(in))
              now == clock + in.dt
              position == updateMetrics(ledger.positions[i], m, now)
              log == RequestIn("V1", ledger, m, now).log
          IN  /\ CloseHolds("V1", position, m, now)
              /\ RebalanceHolds("V1", position, m, now)
              /\ HoldHolds("V1", position, m)
              /\ \E k \in RecordsOf(log, i) : log[k].action = "CLOSE"

\* The fields of a position that are its recomputed metrics.
SameButMetrics(p, q) ==
    [p EXCEPT !.feesEarned = 0, !.currentValue = 0, !.impermanentLoss = 0,
              !.totalReturn = 0, !.lastUpdateAt = 0]
        = [q EXCEPT !.feesEarned = 0, !.currentValue = 0,
                    !.impermanentLoss = 0, !.totalReturn = 0,
                    !.lastUpdateAt = 0]

HoldOrMonitor(v, state, i, m, now) ==
    LET c == RequestIn(v, state, m, now)
        distance == calculatePositionDistance(m.tick, state.positions[i])
    IN  \A k \in RecordsOf(c.log, i) :
            c.log[k].action \in {"HOLD", "MONITOR"} =>
                /\ c.log[k].action = "HOLD" <=> distance >= m.B
                /\ c.log[k].action = "MONITOR" =>
                      SameButMetrics(c.state.positions[i], state.positions[i])

\* C26: an active position that a cycle neither closes nor rebalances is
\* recorded as HOLD exactly when its distance to the nearer bound is at
\* least B and as MONITOR otherwise, and a MONITOR changes nothing of the
\* position but its recomputed metrics.
C26_HoldIffBeyondBuffer ==
    variant # "none" =>
        \A in \in Inputs : \A i \in getActivePositions(ledger) :
            HoldOrMonitor(variant, ledger, i,
                Reading(variant # "Main", Measure(in)), clock + in.dt)

\* The longest cooldown the two shouldRebalancePosition keep between two
\* rebalances of a position.
CooldownOver(position, now) ==
    \/ position.lastRebalanceAt = -1
    \/ calculateTimeHeld(position.lastRebalanceAt, now) >= Hours(24)

RebalancedNearEdge(v, state, i, m, now) ==
    LET log == RequestIn(v, state, m, now).log
        position == Evaluated(v, state.positions[i], m, now)
        distance == calculatePositionDistance(m.tick, position)
    IN  (/\ distance # -1
         /\ ~CloseHolds(v, position, m, now)
         /\ CooldownOver(position, now)
         /\ distance * 2 < m.B) =>
            \E k \in RecordsOf(log, i) : log[k].action = "REBALANCE"

\* C27: an in-range active position that the cycle does not close, whose
\* last rebalance (if any) is older than the cooldown and whose distance to
\* the nearer bound is below half the buffer, is rebalanced in that cycle.
C27_NearEdgeRebalances ==
    variant \in {"V1", "V2"} =>
        \A in \in Inputs : \A i \in getActivePositions(ledger) :
            RebalancedNearEdge(variant, ledger, i,
                Reading(TRUE, Measure(in)), clock + in.dt)

Rebalanced(log, i) == \E k \in RecordsOf(log, i) : log[k].action = "REBALANCE"

\* C28: a position is never rebalanced twice within the cooldown: a cycle
\* writes a REBALANCE record for a position only if the position's previous
\* REBALANCE record, whose time lastRebalanceAt keeps, is at least the
\* cooldown of 24 hours old.
C28_RebalanceCooldown ==
    [][\A i \in DOMAIN ledger.positions :
          /\ Rebalanced(records', i) =>
                /\ ledger'.positions[i].lastRebalanceAt = clock'
                /\ ledger.positions[i].lastRebalanceAt # -1 =>
                      clock' - ledger.positions[i].lastRebalanceAt >= Hours(24)
          /\ ~Rebalanced(records', i) =>
                ledger'.positions[i].lastRebalanceAt
                    = ledger.positions[i].lastRebalanceAt]_vars

\* A rebalanced position that a later cycle inside the cooldown finds in
\* profit within a third of the smallest buffer of an edge, and holds.
C28_Witness ==
    \E k \in DOMAIN records :
        LET position == ledger.positions[records[k].positionId]
        IN  /\ records[k].action = "HOLD"
            /\ position.lastRebalanceAt # -1
            /\ clock - position.lastRebalanceAt < Hours(24)
            /\ records[k].distance >= 0
            /\ records[k].distance * 3 < 2 * Pool.tickSpacing
            /\ records[k].totalReturn > Percent(3)

\* The ranges of two positions share at least one tick.
RangesIntersect(p, q) == p.lower <= q.upper /\ q.lower <= p.upper

\* C32: after every cycle the ranges of the active positions are pairwise
\* disjoint: no position was opened on a range that intersects the range of
\* a position that is still active.
C32_ActiveRangesDisjoint ==
    \A i \in DOMAIN ledger.positions : \A j \in DOMAIN ledger.positions :
        (/\ i < j
         /\ ledger.positions[i].status = "active"
         /\ ledger.positions[j].status = "active")
            => ~RangesIntersect(ledger.positions[i], ledger.positions[j])

\* C33: in a cycle whose tick is outside the range of a position that was
\* active, the cycle leaves that position's feesEarned exactly as it was,
\* also when it closes the position for being out of range.
C33_NoFeesOutOfRange ==
    [][\A i \in DOMAIN ledger.positions :
          (/\ ledger.positions[i].status = "active"
           /\ cycles' = cycles + 1
           /\ (poolTick' < ledger.positions[i].lower
                 \/ poolTick' > ledger.positions[i].upper)) =>
              ledger'.positions[i].feesEarned
                  = ledger.positions[i].feesEarned]_vars

\* C34: at the end of every cycle totalUsdInvested equals the sum of
\* amountUsd over the active positions, which is 0 when none is active and
\* never negative.
C34_InvestedIsActiveSum ==
    /\ ledger.totalUsdInvested = ActiveUsd
    /\ ledger.totalUsdInvested >= 0

\* C35: a position a cycle opens contains the tick of that cycle:
\* lower <= tick <= upper for every position the cycle appends to the ledger.
C35_OpenedAroundTick ==
    [][\A i \in DOMAIN ledger'.positions :
          (i > Len(ledger.positions) /\ cycles' = cycles + 1) =>
              /\ ledger'.positions[i].lower <= poolTick'
              /\ poolTick' <= ledger'.positions[i].upper]_vars

\* The ledger a cycle of variant v leaves when it starts from state at time
\* now - in.dt and reads the input in.
LedgerAfter(v, state, in, now) ==
    CASE v = "V1" -> processPositionsV1(state, Reading(TRUE, Measure(in)),
                                        now).state
      [] v = "V2" -> processPositionsV2(state, Reading(TRUE, Measure(in)),
                                        now).state
      [] OTHER -> onceMain(state, Reading(FALSE, Measure(in)), now).state

TwoActive(state) == Cardinality(getActivePositions(state)) >= 2

\* C36: from the empty ledger of a policy with maxPositions >= 2 and room
\* for two positions of the largest size, some run of two cycles ends in a
\* state with two or more positions active at once.
C36_TwoActiveReachable ==
    (/\ cycles = 0
     /\ ledger.maxPositions >= 2
     /\ ledger.totalUsdLimit >= 2 * ledger.maxUsdPerPosition) =>
        \E in1 \in Inputs : \E in2 \in Inputs :
            TwoActive(LedgerAfter(variant,
                          LedgerAfter(variant, ledger, in1, in1.dt),
                          in2, in1.dt + in2.dt))

\* The liquidity held by the active positions of a SimState.
RECURSIVE ActiveLiquidity(_, _)
ActiveLiquidity(state, i) ==
    IF i = 0 THEN 0
    ELSE ActiveLiquidity(state, i - 1)
            + (IF state.positions[i].isActive
               THEN state.positions[i].liquidity ELSE 0)

\* C38: in the isActive-based simulator, after every cycle usedCapital is
\* the sum of liquidity over the active positions and lies between 0 and
\* totalCapital.
C38_UsedCapitalIsActiveLiquidity ==
    /\ ledger.usedCapital = ActiveLiquidity(ledger, Len(ledger.positions))
    /\ 0 <= ledger.usedCapital
    /\ ledger.usedCapital <= ledger.totalCapital

\* A cycle that added capital to one position while another one had been
\* closed and a third was opened: every kind of step has moved capital.
C38_Witness ==
    /\ cycles > 0
    /\ \E i \in DOMAIN ledger.positions : ~ledger.positions[i].isActive
    /\ \E k \in DOMAIN records : records[k].event = "SIM_ADD_MORE"
    /\ \E k \in DOMAIN records : records[k].event = "SIM_ADD"
    /\ ledger.usedCapital > 0

(***************************************************************************)
(* Properties of the cycle under faults of its environment.                *)
(***************************************************************************)
Cycled == io.status # "none" /\ io.step # "boot"

\* C16: when the evaluation of one active position throws, every other
\* active position is still evaluated, the gate still runs and the state is
\* still written in that cycle.
C16_PositionFaultIsolated ==
    (Cycled /\ io.bitmapOk /\ io.faultAt # 0) =>
        /\ io.evaluated = io.active \ {io.faultAt}
        /\ io.gate
        /\ io.writes >= 1

\* C17: a write of the state file that fails is retried exactly once, so a
\* cycle whose write failed made two attempts.
C17_FailedWriteRetriedOnce ==
    (Cycled /\ io.step = "save"
        /\ io.outcome \in {"throwsUntouched", "throwsTruncated"}) =>
        io.writes = 2

\* C18: when the process stops inside saveState over a complete state file,
\* the next loadState returns the ledger saved before or the new ledger.
C18_AtomicReplace ==
    (io.status = "restarted" /\ io.old.kind = "complete") =>
        ledger \in {io.old.data, io.new}

\* C20: when the observe read or a bitmap-word read fails, no exception
\* leaves the cycle because of it, the active positions are still evaluated
\* (unless one of them throws), and after a failed observe the width is the
\* one of sigma = 0 and the range is centred on the current tick.
C20_ReadFailureDegrades ==
    (Cycled /\ (~io.oracleOk \/ ~io.bitmapOk)) =>
        /\ io.step # "bitmap"
        /\ io.faultAt = 0 => io.evaluated = io.active
        /\ ~io.oracleOk =>
              /\ io.W = IF variant = "Main"
                        THEN widthFromSigmaMain(0, T_HOURS, Z_CONF,
                                                Pool.tickSpacing)
                        ELSE widthFromSigma(0, T_HOURS, Z_CONF,
                                            Pool.tickSpacing)
              /\ io.lowerReco =
                    roundDownToSpacing(poolTick - MathFloorDiv(io.W, 2),
                                       Pool.tickSpacing)

====
